---- MODULE Spec2Model ----
(***************************************************************************)
(* PhotoLense: the model lifecycle manager (ModelManager), the concurrent  *)
(* classification pipeline (classify_images) and the indexing pipeline     *)
(* (run_indexing_task), as state machines over the fields of ModelManager. *)
(***************************************************************************)
EXTENDS Integers, Sequences, FiniteSets, TLC

\* ------------------------------------------------------------------ bounds
\* Session constructions (do_load_model calls) allowed in one behaviour.
MaxLoads == 2
\* Image files in the folder of classify job c1, and of job c2.
MaxItems == 2
MaxOtherItems == 1
\* Photos without an embedding in the folder of the indexing run.
MaxPhotos == 1

\* The largest content length, in bytes, of a downloaded file.
MaxSize == 3

\* The largest max_distance a similarity search is asked for, in units of the
\* distance between the embeddings of two neighbouring photos.
MaxDistance == 2

\* File-system events queued for the debounce task, and folder-changed events
\* counted.
MaxEvents == 2

\* Image files in the classified folder (the items of a job work on disjoint
\* paths and rows).
MaxFiles == 1

\* Length of the logit vectors (the label count of the model).
MaxLogits == 2

\* ------------------------------------------------------------- value sets
None == "None"

\* Option<Session>::None (a session is a record, so None is one too)
NoSession == [type |-> None, gpu |-> FALSE, id |-> 0]

\* The std::sync::Mutex around the session is not held.
Free == <<"free", 0>>

NoLast == [type |-> None, gpu |-> FALSE]

\* enum ModelType
ModelType == {"Base", "Large", "MobileNetV3Large"}

\* The variants the callers select in the model (Base and Large differ only in
\* their URLs and file names).
SelectTypes == {"Base", "MobileNetV3Large"}

\* The classify_images commands that may run concurrently.
Jobs == {"c1", "c2"}

\* The callers of ModelManager::load_model that may run concurrently (the load
\* command, the start-up auto-load task, an indexing run).
Loaders == {"L1", "L2"}

\* The messages do_load_model can fail with.
ErrReadConfig == "Failed to read config file"
ErrParseConfig == "Failed to parse config JSON"
ErrLoadOnnx == "Failed to load ONNX model"
LoadErrors == {ErrReadConfig, ErrParseConfig, ErrLoadOnnx}
ErrBusy == "Model is already loading"

VARIABLES
    \* ---- ModelManager fields
    labels,          \* Option<Vec<String>>: None, or the variant whose label map was read
    model,           \* Option<Session>: None, or [type, gpu, id] of the constructed session
    modelGuard,      \* holder of the std::sync::Mutex around model: Free or <<job, item>>
    loading,         \* bool
    error,           \* Option<String>
    current_type,    \* the selected ModelType
    cancel_flag,     \* AtomicBool
    current_use_gpu, \* bool
    loaded_type,     \* Option<ModelType>
    \* ---- one load_model call per loader
    lpc,             \* position of the loader inside load_model / do_load_model
    use_gpu,         \* the call's use_gpu argument
    result,          \* the Result of do_load_model: None (pending), "Ok" or a message
    built,           \* the session the call constructed (None before)
    loadAttempts,    \* number of session constructions started (the session id source)
    \* ---- history of the calls (observation only)
    lret,            \* at "ret": what the call returns: "Ok", "NoOp" (Ok without a load) or a message
    snap,            \* the session, loaded variant and accelerator mode at call entry
    \* ---- the model directory
    disk,            \* per file name: "absent", "partial" (being written) or "complete"
    \* ---- one download_model call
    dpc,             \* position inside download_model / download_file
    current_type_enum, \* download_model's copy of the selected variant
    dest,            \* download_file's destination (None outside download_file)
    dret,            \* at "ret": what download_model returns
    dlCancelReq,     \* cancel_classification was called while the call was streaming (history)
    \* ---- download_file's progress reporting
    total_size,      \* response.content_length().unwrap_or(0)
    downloaded,      \* bytes received so far
    last_emit,       \* the last percentage emitted inside the loop
    emitted,         \* the download-progress payloads emitted by the download_model call
    \* ---- classify_images jobs
    jpc,             \* per job: "idle", "running" (inside the parallel map) or "ret"
    items,           \* per job: per listed image, in input order, [pc, out] with the
                     \* job's crop_size and label list
    jret,            \* at "ret": what classify_images returns, [status, results]
    cancelReq,       \* cancel_classification was called since the job's own reset (history)
    \* ---- one indexing run
    xpc,             \* position of the task inside run_indexing_task ("idle": no run)
    photos,          \* photos_to_index: per photo [id, pc, out] with the run's
                     \* crop_size and label list
    done_events,     \* indexing-progress events with done=true emitted by the run
    last_event,      \* the last indexing-progress event of the run: "none", "status",
                     \* "progress" or "done"
    \* ---- the database
    vec_meta,        \* the rows 'model_type' and 'embedding_dim' of table vec_meta
    vec_photos,      \* the vec0 table: [exists, dim, rows], rows per photo id
    dbcall,          \* the last call a direct caller made to the database, with its Result (history)
    photo_path,      \* column path of table photos, per photo id
    \* ---- get_model_status
    status,          \* the ModelStatus the last get_model_status call returned (history)
    \* ---- FolderWatcher
    wstate,          \* FolderWatcher.state: NoWatch, or the path of the WatcherState
    wlock,           \* holder of the Mutex around state: NoCaller or a caller
    wpc,             \* per caller: position inside watch_folder
    wpath,           \* per caller: the path argument (None outside a call)
    watches,         \* the paths the operating system watches for this process
    queued,          \* messages in the channel of the live watcher's debounce task
    folder_changed,  \* folder-changed events emitted (capped)
    dbpc,            \* the live watcher's debounce task: "recv" or "sleep"
    orphans,         \* debounce tasks of dropped watchers that still have to emit (capped)
    unnotified,      \* file-system events sent since the last folder-changed event (history, capped)
    \* ---- run_inference_with_model
    logits,          \* the raw output of the last forward pass (<<>>: none yet)
    embedding_ret,   \* the embedding the last call returned
    \* ---- classify_images, organize and tags
    photo_rows,      \* table photos, rows of the classified folder: id per path (0: no row)
    tags,            \* table tags: the tag column of the rows of a photo id, in insertion order
    moved,           \* the files an organize step renamed out of the classified folder
    ojob,            \* the job's options [pc, organize, copy_files]
    oitems,          \* per file: the closure's locals after inference [pc, predictions,
                     \* final_path, moved_to, id] and what happened [org, db] (history)
    disturbed,       \* another call wrote session, loaded variant or mode since entry
    reselected,      \* the selected variant changed since call entry
    last             \* (variant, mode) of the last load that returned Ok after loading
                     \* with no other load writing during it, while no load failed and
                     \* the selection stayed the same since

mgrVars == <<labels, model, modelGuard, loading, error, current_type, cancel_flag,
             current_use_gpu, loaded_type>>
histVars == <<lret, snap, disturbed, reselected, last>>
loadVars == <<lpc, use_gpu, result, built, loadAttempts, histVars>>
prVars == <<total_size, downloaded, last_emit, emitted>>
dlVars == <<disk, dpc, current_type_enum, dest, dret, dlCancelReq, prVars>>
jobVars == <<jpc, items, jret, cancelReq>>
dbVars == <<vec_meta, vec_photos>>
ixVars == <<xpc, photos, done_events, last_event, dbVars, dbcall>>
watchVars == <<wstate, wlock, wpc, wpath, watches, queued, folder_changed, dbpc, orphans,
              unnotified>>
tagVars == <<photo_rows, tags, moved, ojob, oitems>>
infVars == <<logits, embedding_ret>>
sideVars == <<status, watchVars, photo_path, tagVars, infVars>>
vars == <<mgrVars, loadVars, dlVars, jobVars, ixVars, sideVars>>

\* ---------------------------------------------------------------- Database
\* Rows of table photos that list_photos stored for other folders.
OtherPhotos == 2

\* The ids of the rows of table photos: the photos of the indexed folder first.
PhotoIds == 1..(MaxPhotos + OtherPhotos)

\* No row for the photo in vec_photos (a vector is a record, so this is one too).
NoVec == [type |-> None, dim |-> 0, pos |-> 0]

\* What run_inference_with_model returns as the embedding: the normalised output
\* of the session, one component per class of the session's variant.
\* The class count of a variant (ImageNet-1k for MobileNetV3, ImageNet-22k for
\* the convnextv2 "22k" variants): the length of its id2label map and of the
\* output of its session.
num_labels(t) == IF t = "MobileNetV3Large" THEN 1000 ELSE 21841

\* The dimensions a caller may ask the vector table for.
Dims == {num_labels(t) : t \in ModelType}

\* The embedding the session of variant t computes from the image of photo id:
\* dim components, at position pos of a line on the unit sphere along which the
\* cosine distance of two embeddings is the difference of their positions.
embedding_of(t, id) == [type |-> t, dim |-> num_labels(t), pos |-> id]

\* The embeddings of the sessions of the variants.
Vectors == {embedding_of(t, id) : t \in ModelType, id \in PhotoIds}

\* usize::to_string, as the sequence of decimal digits
RECURSIVE to_string(_)
to_string(n) == IF n < 10 THEN <<n>> ELSE to_string(n \div 10) \o <<n % 10>>

\* format!("{:?}", model_type): the name of the variant
Debug(t) ==
    CASE t = "Base" -> "Base"
      [] t = "Large" -> "Large"
      [] t = "MobileNetV3Large" -> "MobileNetV3Large"

\* query_row(...).ok() that found no row
NoValue == <<>>

NoCall == [op |-> None, dim |-> 0, tag |-> None, id |-> 0, res |-> None, had |-> {}]

\* Paths and folders are strings, modelled as sequences of characters: a path
\* is the character of its directory followed by the character of its file.
\* The file name of the photo with the given id; column path is UNIQUE.
file_name(id) == <<"p", "q", "r", "s", "t", "u", "v", "w">>[id]

\* The folder arguments of the database calls: a directory, the same in the
\* other case, and a name holding an underscore.
Folders == {<<"a">>, <<"A">>, <<"_">>}

\* The folder the indexing run works on.
RunFolder == <<"a">>

\* Table photos as list_photos left it: the photos of the indexed folder, and
\* the photos of another folder.
FolderPhotos ==
    [id \in PhotoIds |-> IF id <= MaxPhotos THEN <<"a", file_name(id)>>
                                           ELSE <<"b", file_name(id)>>]

\* The contents table photos may have: the photos of the indexed folder, and
\* the other photos under any directory.
PhotoTables ==
    {[id \in PhotoIds |-> IF id <= MaxPhotos THEN FolderPhotos[id]
                                              ELSE <<dir[id], file_name(id)>>] :
        dir \in [PhotoIds \ (1..MaxPhotos) -> {"a", "A", "b"}]}

\* str::starts_with
starts_with(path, prefix) ==
    Len(prefix) <= Len(path) /\ SubSeq(path, 1, Len(prefix)) = prefix

\* The case folding of SQLite's LIKE: the upper case ASCII letters only.
lower(c) == IF c = "A" THEN "a" ELSE IF c = "B" THEN "b" ELSE c

\* SQLite's LIKE: % matches any run of characters, _ any one character, and
\* letters match in either case; the statements give no ESCAPE clause and the
\* connection leaves case_sensitive_like off.
RECURSIVE like(_, _)
like(str, pattern) ==
    IF pattern = <<>> THEN str = <<>>
    ELSE IF Head(pattern) = "%"
            THEN like(str, Tail(pattern)) \/ (str # <<>> /\ like(Tail(str), pattern))
    ELSE /\ str # <<>>
         /\ Head(pattern) = "_" \/ lower(Head(pattern)) = lower(Head(str))
         /\ like(Tail(str), Tail(pattern))

\* format!("{}%", folder)
folder_pattern(folder) == folder \o <<"%">>

\* The image files of the classified folder.
Files == 1..MaxFiles

\* The filtered prediction lists of an item, best first: none, one or two
\* class names (alphanumeric, so the folder name made of one is the name
\* itself).
PredictionLists == {<<>>, <<"cat">>, <<"cat", "dog">>}

\* img_path of a file of the classified folder "c", and
\* dest_dir.join(file_name) under the folder named after the top class.
img_path(f) == <<"c", file_name(f)>>
dest_path(f, top_class) == <<"c", top_class, file_name(f)>>
ClassifyPaths == {img_path(f) : f \in Files} \cup {dest_path(f, "cat") : f \in Files}

\* The id the row of a path gets when it is inserted: one per path, after the
\* rows list_photos stored.
row_id(path) ==
    MaxPhotos + OtherPhotos + Cardinality({q \in ClassifyPaths : Len(q) < Len(path)})
        + Cardinality({f \in Files : f <= CHOOSE g \in Files : file_name(g) = path[Len(path)]})
TagIds == {row_id(path) : path \in ClassifyPaths}

\* Database::new: vec_meta is created empty and vec_photos does not exist;
\* no photo of the classified folder has a row or a tag yet.
InitTables ==
    /\ photo_rows = [path \in ClassifyPaths |-> 0]
    /\ tags = [id \in TagIds |-> <<>>]
    /\ vec_meta = [model_type |-> NoValue, embedding_dim |-> NoValue]
    /\ vec_photos = [exists |-> FALSE, dim |-> 0, rows |-> [id \in PhotoIds |-> NoVec]]
    /\ dbcall = NoCall

\* The database of the application once list_photos stored the folders.
InitDb ==
    /\ InitTables
    /\ photo_path = FolderPhotos

\* A test that asks for a rebuild whatever is stored.
needs_recreate_always(dim, model_type) == TRUE

\* ensure_vec_table: needs_recreate
needs_recreate(dim, model_type) ==
    \/ vec_meta.model_type # <<model_type>>
    \/ vec_meta.embedding_dim # to_string(dim)

\* The statement of ensure_vec_table that fails, or "ok".
EnsureOutcomes == {"ok", "drop_failed", "create_failed", "meta_model_failed", "meta_dim_failed"}

\* A rebuild that creates the table only when there is none, keeping the rows.
ensure_table_if_not_exists(dim, model_type, o) ==
    IF vec_photos.exists THEN vec_photos
    ELSE [exists |-> TRUE, dim |-> dim, rows |-> [id \in PhotoIds |-> NoVec]]

\* vec_photos after ensure_vec_table(dim, model_type) with outcome o
ensure_table(dim, model_type, o) ==
    IF ~needs_recreate(dim, model_type) \/ o = "drop_failed"
       THEN vec_photos
       ELSE IF o = "create_failed"
       THEN [exists |-> FALSE, dim |-> 0, rows |-> [id \in PhotoIds |-> NoVec]]
       ELSE [exists |-> TRUE, dim |-> dim, rows |-> [id \in PhotoIds |-> NoVec]]

\* vec_meta after ensure_vec_table(dim, model_type) with outcome o
ensure_meta(dim, model_type, o) ==
    IF ~needs_recreate(dim, model_type) \/ o \in {"drop_failed", "create_failed"}
       THEN vec_meta
       ELSE [model_type |-> IF o = "meta_model_failed" THEN vec_meta.model_type
                                                        ELSE <<model_type>>,
             embedding_dim |-> IF o = "ok" THEN to_string(dim) ELSE vec_meta.embedding_dim]

\* The Result of ensure_vec_table(dim, model_type) with outcome o
ensure_result(dim, model_type, o) ==
    IF ~needs_recreate(dim, model_type) \/ o = "ok" THEN "Ok" ELSE "Err"

\* Database::ensure_vec_table
ensure_vec_table(dim, model_type, o) ==
    /\ vec_photos' = ensure_table(dim, model_type, o)
    /\ vec_meta' = ensure_meta(dim, model_type, o)

\* The Result of set_embedding: the INSERT needs the table and a vector of the
\* table's dimension, and may fail for other reasons (ok = FALSE).
set_embedding_result(embedding, ok) ==
    IF ok /\ vec_photos.exists /\ embedding.dim = vec_photos.dim THEN "Ok" ELSE "Err"

\* An INSERT that leaves its row behind even when it reports an error.
set_embedding_keeps_failed_row(photo_id, embedding, ok) ==
    /\ vec_photos' = IF vec_photos.exists
                        THEN [vec_photos EXCEPT !.rows[photo_id] = embedding]
                        ELSE vec_photos
    /\ UNCHANGED vec_meta

\* An INSERT OR IGNORE: a photo that has a row keeps it.
set_embedding_or_ignore(photo_id, embedding, ok) ==
    /\ vec_photos' = IF set_embedding_result(embedding, ok) = "Ok" /\ vec_photos.rows[photo_id] = NoVec
                        THEN [vec_photos EXCEPT !.rows[photo_id] = embedding]
                        ELSE vec_photos
    /\ UNCHANGED vec_meta

\* Database::set_embedding
set_embedding(photo_id, embedding, ok) ==
    /\ vec_photos' = IF set_embedding_result(embedding, ok) = "Ok"
                        THEN [vec_photos EXCEPT !.rows[photo_id] = embedding]
                        ELSE vec_photos
    /\ UNCHANGED vec_meta

\* Database::has_embedding, on a table tbl
has_row(tbl, photo_id) == tbl.exists /\ tbl.rows[photo_id] # NoVec

\* Database::has_embedding
has_embedding(photo_id) == has_row(vec_photos, photo_id)

\* Database::get_photos_to_index on a table tbl, from photo id on: the photos
\* whose path is LIKE the folder pattern and that have no row, or all photos
\* LIKE the pattern when vec_photos does not exist; by ascending id.
RECURSIVE photos_from(_, _, _)
photos_from(tbl, folder, id) ==
    IF id \notin PhotoIds THEN <<>>
    ELSE (IF like(photo_path[id], folder_pattern(folder)) /\ ~has_row(tbl, id)
             THEN <<id>> ELSE <<>>) \o photos_from(tbl, folder, id + 1)

\* Database::get_photos_to_index
get_photos_to_index(folder) == photos_from(vec_photos, folder, 1)

\* vec0 with distance_metric=cosine: the distance of two stored vectors
distance(a, b) == IF a.pos >= b.pos THEN a.pos - b.pos ELSE b.pos - a.pos

\* The photo ids with a row in vec_photos.
indexed == {id \in PhotoIds : has_embedding(id)}

\* The inner query, "embedding MATCH ?1 AND k = ?2": the k rows of the whole
\* table nearest to the reference vector, any of the choices among rows at
\* equal distance.
knn(ref_embedding, k) ==
    {sub \in SUBSET indexed :
        /\ Cardinality(sub) = IF k <= Cardinality(indexed) THEN k ELSE Cardinality(indexed)
        /\ \A near \in sub, far \in indexed \ sub :
              distance(ref_embedding, vec_photos.rows[near])
                 <= distance(ref_embedding, vec_photos.rows[far])}

\* ORDER BY sub.distance: the orders of the rows of ids by ascending distance,
\* each row with the path joined from table photos.
RECURSIVE order_by_distance(_, _)
order_by_distance(ids, ref_embedding) ==
    IF ids = {} THEN {<<>>}
    ELSE UNION {{<<[photo_id |-> id, path |-> photo_path[id],
                    distance |-> distance(ref_embedding, vec_photos.rows[id])]>> \o rest :
                    rest \in order_by_distance(ids \ {id}, ref_embedding)} :
                id \in {n \in ids : \A m \in ids :
                           distance(ref_embedding, vec_photos.rows[n])
                              <= distance(ref_embedding, vec_photos.rows[m])}}

\* A search that filters the table first and takes the k nearest of what is left.
find_similar_filters_first(photo_id, folder, max_distance, limit) ==
    IF ~has_embedding(photo_id) THEN {[res |-> "Err", rows |-> <<>>]}
    ELSE LET ref_embedding == vec_photos.rows[photo_id]
             kept == {id \in indexed :
                        /\ id # photo_id
                        /\ like(photo_path[id], folder_pattern(folder))
                        /\ distance(ref_embedding, vec_photos.rows[id]) <= max_distance}
         IN {[res |-> "Ok", rows |-> SubSeq(rows, 1, IF limit <= Len(rows) THEN limit ELSE Len(rows))] :
                rows \in order_by_distance(kept, ref_embedding)}

\* Database::find_similar_by_embedding: the Results it can give. The reference
\* embedding is fetched with query_row, which fails when the photo has no row;
\* the outer query filters the rows the inner query chose.
find_similar_by_embedding(photo_id, folder, max_distance, limit) ==
    IF ~has_embedding(photo_id) THEN {[res |-> "Err", rows |-> <<>>]}
    ELSE LET ref_embedding == vec_photos.rows[photo_id]
         IN {[res |-> "Ok", rows |-> rows] :
                rows \in UNION {order_by_distance(
                                   {id \in sub :
                                      /\ id # photo_id
                                      /\ like(photo_path[id], folder_pattern(folder))
                                      /\ distance(ref_embedding, vec_photos.rows[id])
                                            <= max_distance},
                                   ref_embedding) :
                                sub \in knn(ref_embedding, limit)}}

\* A caller of the database: find_similar_by_embedding with any arguments.
FindSimilar(photo_id, folder, max_distance, limit) ==
    /\ \E r \in find_similar_by_embedding(photo_id, folder, max_distance, limit) :
          dbcall' = [op |-> "find_similar", id |-> photo_id, folder |-> folder,
                     max_distance |-> max_distance, limit |-> limit,
                     res |-> r.res, rows |-> r.rows]
    /\ UNCHANGED <<mgrVars, loadVars, dlVars, jobVars, xpc, photos, done_events, last_event,
                   dbVars, sideVars>>

\* A caller of the database: get_photos_to_index with any folder.
GetPhotosToIndex(folder) ==
    /\ dbcall' = [op |-> "to_index", folder |-> folder, res |-> "Ok",
                  rows |-> get_photos_to_index(folder),
                  existed |-> vec_photos.exists]
    /\ UNCHANGED <<mgrVars, loadVars, dlVars, jobVars, xpc, photos, done_events, last_event,
                   dbVars, sideVars>>

\* A caller of the database: ensure_vec_table with any arguments.
DbEnsure(dim, model_type, o) ==
    /\ ensure_vec_table(dim, model_type, o)
    /\ dbcall' = [op |-> "ensure", dim |-> dim, tag |-> model_type, id |-> 0,
                  res |-> ensure_result(dim, model_type, o),
                  had |-> {id \in PhotoIds : has_embedding(id)}]
    /\ UNCHANGED <<mgrVars, loadVars, dlVars, jobVars, xpc, photos, done_events, last_event, sideVars>>

\* A caller of the database: set_embedding with any arguments.
DbSetEmbedding(photo_id, embedding, ok) ==
    /\ set_embedding(photo_id, embedding, ok)
    /\ dbcall' = [op |-> "set", dim |-> embedding.dim, tag |-> embedding.type,
                  id |-> photo_id, res |-> set_embedding_result(embedding, ok),
                  had |-> {id \in PhotoIds : has_embedding(id)},
                  vec |-> embedding, prev |-> vec_photos.rows[photo_id]]
    /\ UNCHANGED <<mgrVars, loadVars, dlVars, jobVars, xpc, photos, done_events, last_event, sideVars>>

\* Option<ClassifyProgress>::None, a record like the results
NoRet == [status |-> None, results |-> <<>>]

\* ModelType::config, the local file names
model_file(t) ==
    CASE t = "Base" -> "convnextv2-base-22k-384.onnx"
      [] t = "Large" -> "convnextv2-large-22k-384.onnx"
      [] t = "MobileNetV3Large" -> "mobilenetv3_large.onnx"

config_file(t) ==
    CASE t = "Base" -> "convnextv2-base-22k-384-config.json"
      [] t = "Large" -> "convnextv2-large-22k-384-config.json"
      [] t = "MobileNetV3Large" -> "mobilenetv3_config.json"

\* ModelType::crop_size
crop_size(t) == IF t = "MobileNetV3Large" THEN 224 ELSE 384

ModelFiles == {model_file(t) : t \in ModelType} \cup {config_file(t) : t \in ModelType}

\* The folders the front end opens.
WatchPaths == {"p1", "p2", "p3"}

\* The list_photos commands that may call watch_folder concurrently.
Watchers == {"w1", "w2"}

\* FolderWatcher::new: state is None
NoWatch == None

\* Nobody holds the Mutex around FolderWatcher.state.
NoCaller == "nobody"

\* No classify_images job is between inference and the storing of the tags.
NoJob == [pc |-> "idle", organize |-> FALSE, copy_files |-> FALSE]

\* A file that is not an item of the running job.
NoItem == [pc |-> "none", predictions |-> <<>>, final_path |-> <<>>, moved_to |-> <<>>,
           id |-> 0, org |-> "none", db |-> "none"]

\* No call is running: the locals of the handlers at rest.
InitCalls ==
    /\ dpc = "idle"
    /\ current_type_enum = None
    /\ dlCancelReq = FALSE
    /\ total_size = 0
    /\ downloaded = 0
    /\ last_emit = 0
    /\ emitted = <<>>
    /\ dest = None
    /\ dret = None
    /\ jpc = [j \in Jobs |-> "idle"]
    /\ items = [j \in Jobs |-> <<>>]
    /\ jret = [j \in Jobs |-> NoRet]
    /\ cancelReq = [j \in Jobs |-> FALSE]
    /\ xpc = "idle"
    /\ photos = <<>>
    /\ done_events = 0
    /\ last_event = "none"
    /\ status = [downloaded |-> FALSE, loading |-> FALSE, ready |-> FALSE,
                 error |-> "unasked"]
    /\ wstate = NoWatch
    /\ wlock = NoCaller
    /\ wpc = [c \in Watchers |-> "idle"]
    /\ wpath = [c \in Watchers |-> None]
    /\ watches = {}
    /\ queued = 0
    /\ folder_changed = 0
    /\ dbpc = "recv"
    /\ orphans = 0
    /\ unnotified = 0
    /\ logits = <<>>
    /\ embedding_ret = <<>>
    /\ moved = {}
    /\ ojob = NoJob
    /\ oitems = [f \in Files |-> NoItem]

\* ModelManager::new, with every model file left in the model directory by
\* earlier runs of the application.
InitManager ==
    /\ disk = [f \in ModelFiles |-> "complete"]
    /\ labels = None
    /\ model = NoSession
    /\ modelGuard = Free
    /\ loading = FALSE
    /\ error = None
    /\ current_type = "MobileNetV3Large"
    /\ cancel_flag = FALSE
    /\ current_use_gpu = TRUE
    /\ loaded_type = None
    /\ lpc = [p \in Loaders |-> "idle"]
    /\ use_gpu = [p \in Loaders |-> TRUE]
    /\ result = [p \in Loaders |-> None]
    /\ built = [p \in Loaders |-> NoSession]
    /\ loadAttempts = 0
    /\ lret = [p \in Loaders |-> None]
    /\ snap = [p \in Loaders |-> [model |-> NoSession, loaded |-> None, gpu |-> TRUE]]
    /\ disturbed = [p \in Loaders |-> FALSE]
    /\ reselected = [p \in Loaders |-> FALSE]
    /\ last = NoLast

\* The application after start-up, with nothing loaded.
Init ==
    /\ InitCalls
    /\ InitDb
    /\ InitManager

\* ModelManager::is_ready
is_ready == model # NoSession

\* ModelManager::get_error
get_error == error

\* *current_type.lock().await = t, as made by set_model_type, by
\* download_model(Some(t)) and by the load command with a model_type argument.
Select(t) ==
    /\ current_type' = t
    /\ reselected' = [p \in Loaders |->
                         IF t # current_type /\ lpc[p] # "idle" THEN TRUE ELSE reselected[p]]
    /\ last' = IF t # current_type THEN NoLast ELSE last


\* set_model_type that drops the session when the selection changes.
set_model_type_unloads(t) ==
    /\ Select(t)
    /\ model' = IF t # current_type THEN NoSession ELSE model
    /\ UNCHANGED <<labels, modelGuard, loading, error, cancel_flag,
                   current_use_gpu, loaded_type>>
    /\ UNCHANGED <<lpc, use_gpu, result, built, loadAttempts, lret, snap, disturbed>>
    /\ UNCHANGED <<dlVars, jobVars, ixVars, sideVars>>

\* set_model_type
set_model_type(t) ==
    /\ Select(t)
    /\ UNCHANGED <<labels, model, modelGuard, loading, error, cancel_flag,
                   current_use_gpu, loaded_type>>
    /\ UNCHANGED <<lpc, use_gpu, result, built, loadAttempts, lret, snap, disturbed>>
    /\ UNCHANGED <<dlVars, jobVars, ixVars, sideVars>>

\* ------------------------------------------------------------ load_model
InCall(p) == lpc[p] # "idle"

NoSnap == [model |-> NoSession, loaded |-> None, gpu |-> TRUE]

\* needs_reload with the readiness test inverted.
needs_reload_ready_inverted(g) ==
    \/ current_use_gpu # g
    \/ is_ready
    \/ loaded_type # current_type

\* load_model, the needs_reload block
needs_reload(g) ==
    \/ current_use_gpu # g
    \/ ~is_ready
    \/ loaded_type # current_type
\* load_model with the sticky error cleared at entry, before the needs_reload
\* test.
LoadEnterClearsError(p, g) ==
    /\ lpc[p] = "idle"
    /\ loadAttempts + Cardinality({q \in Loaders : InCall(q)}) < MaxLoads
    /\ use_gpu' = [use_gpu EXCEPT ![p] = g]
    /\ snap' = [snap EXCEPT ![p] = [model |-> model, loaded |-> loaded_type,
                                    gpu |-> current_use_gpu]]
    /\ disturbed' = [disturbed EXCEPT ![p] = FALSE]
    /\ result' = [result EXCEPT ![p] = None]
    /\ built' = [built EXCEPT ![p] = NoSession]
    /\ IF needs_reload(g)
          THEN /\ lpc' = [lpc EXCEPT ![p] = "lock_loading"]
               /\ lret' = [lret EXCEPT ![p] = None]
          ELSE /\ lpc' = [lpc EXCEPT ![p] = "ret"]
               /\ lret' = [lret EXCEPT ![p] = "NoOp"]
    /\ reselected' = [reselected EXCEPT ![p] = FALSE]
    /\ error' = None
    /\ UNCHANGED <<labels, model, modelGuard, loading, current_type, cancel_flag,
                   current_use_gpu, loaded_type>>
    /\ UNCHANGED <<loadAttempts, last>>
    /\ UNCHANGED <<dlVars, jobVars, ixVars, sideVars>>


\* load_model entry: needs_reload is computed; when false the call returns Ok.
LoadEnter(p, g) ==
    /\ lpc[p] = "idle"
    /\ loadAttempts + Cardinality({q \in Loaders : InCall(q)}) < MaxLoads
    /\ use_gpu' = [use_gpu EXCEPT ![p] = g]
    /\ snap' = [snap EXCEPT ![p] = [model |-> model, loaded |-> loaded_type,
                                    gpu |-> current_use_gpu]]
    /\ disturbed' = [disturbed EXCEPT ![p] = FALSE]
    /\ result' = [result EXCEPT ![p] = None]
    /\ built' = [built EXCEPT ![p] = NoSession]
    /\ IF needs_reload(g)
          THEN /\ lpc' = [lpc EXCEPT ![p] = "lock_loading"]
               /\ lret' = [lret EXCEPT ![p] = None]
          ELSE /\ lpc' = [lpc EXCEPT ![p] = "ret"]
               /\ lret' = [lret EXCEPT ![p] = "NoOp"]
    /\ reselected' = [reselected EXCEPT ![p] = FALSE]
    /\ UNCHANGED <<mgrVars, loadAttempts, last>>
    /\ UNCHANGED <<dlVars, jobVars, ixVars, sideVars>>

\* The loading-flag block without the busy test: the flag is taken in any case.
LoadLockLoadingNoBusy(p) ==
    /\ lpc[p] = "lock_loading"
    /\ loading' = TRUE
    /\ lpc' = [lpc EXCEPT ![p] = "clear_error"]
    /\ UNCHANGED <<labels, model, modelGuard, error, current_type, cancel_flag,
                   current_use_gpu, loaded_type>>
    /\ UNCHANGED <<use_gpu, result, built, loadAttempts, histVars>>
    /\ UNCHANGED <<dlVars, jobVars, ixVars, sideVars>>

\* load_model, the loading-flag block: busy error, or the flag is taken.
LoadLockLoading(p) ==
    /\ lpc[p] = "lock_loading"
    /\ IF loading
          THEN /\ lpc' = [lpc EXCEPT ![p] = "ret"]
               /\ lret' = [lret EXCEPT ![p] = ErrBusy]
               /\ UNCHANGED loading
          ELSE /\ loading' = TRUE
               /\ lpc' = [lpc EXCEPT ![p] = "clear_error"]
               /\ UNCHANGED lret
    /\ UNCHANGED <<labels, model, modelGuard, error, current_type, cancel_flag,
                   current_use_gpu, loaded_type>>
    /\ UNCHANGED <<use_gpu, result, built, loadAttempts, snap, disturbed, reselected, last>>
    /\ UNCHANGED <<dlVars, jobVars, ixVars, sideVars>>

\* A load_model that drops the old session before it builds the new one.
LoadClearErrorUnloads(p) ==
    /\ lpc[p] = "clear_error"
    /\ error' = None
    /\ model' = NoSession
    /\ lpc' = [lpc EXCEPT ![p] = "read_config"]
    /\ UNCHANGED <<labels, modelGuard, loading, current_type, cancel_flag,
                   current_use_gpu, loaded_type>>
    /\ UNCHANGED <<use_gpu, result, built, loadAttempts, histVars>>
    /\ UNCHANGED <<dlVars, jobVars, ixVars, sideVars>>

\* load_model: *self.error.lock().await = None
LoadClearError(p) ==
    /\ lpc[p] = "clear_error"
    /\ error' = None
    /\ lpc' = [lpc EXCEPT ![p] = "read_config"]
    /\ UNCHANGED <<labels, model, modelGuard, loading, current_type, cancel_flag,
                   current_use_gpu, loaded_type>>
    /\ UNCHANGED <<use_gpu, result, built, loadAttempts, histVars>>
    /\ UNCHANGED <<dlVars, jobVars, ixVars, sideVars>>

\* do_load_model: the config of the selected variant is read and parsed, and its
\* label list stored; a read or parse failure returns the error.
DoLoadLabels(p) ==
    /\ lpc[p] = "read_config"
    /\ \/ /\ disk[config_file(current_type)] = "complete"
          /\ labels' = current_type
          /\ lpc' = [lpc EXCEPT ![p] = "model_path"]
          /\ UNCHANGED result
       \/ /\ \E e \in {ErrReadConfig, ErrParseConfig} :
                 result' = [result EXCEPT ![p] = e]
          /\ lpc' = [lpc EXCEPT ![p] = "unset_loading"]
          /\ UNCHANGED labels
    /\ UNCHANGED <<model, modelGuard, loading, error, current_type, cancel_flag,
                   current_use_gpu, loaded_type>>
    /\ UNCHANGED <<use_gpu, built, loadAttempts, histVars>>
    /\ UNCHANGED <<dlVars, jobVars, ixVars, sideVars>>

\* do_load_model: model_path() reads the selected variant and the blocking task
\* that constructs the session from that weight file starts.
DoLoadModelPath(p) ==
    /\ lpc[p] = "model_path"
    /\ loadAttempts' = loadAttempts + 1
    /\ built' = [built EXCEPT ![p] = [type |-> current_type, gpu |-> use_gpu[p],
                                      id |-> loadAttempts + 1]]
    /\ lpc' = [lpc EXCEPT ![p] = "build"]
    /\ UNCHANGED mgrVars
    /\ UNCHANGED <<use_gpu, result, histVars>>
    /\ UNCHANGED <<dlVars, jobVars, ixVars, sideVars>>

\* do_load_model: the session construction (spawn_blocking) ends, with a session
\* or with an error.
DoLoadBuild(p) ==
    /\ lpc[p] = "build"
    /\ \/ /\ disk[model_file(built[p].type)] = "complete"
          /\ lpc' = [lpc EXCEPT ![p] = "store"]
          /\ UNCHANGED <<result, built>>
       \/ /\ result' = [result EXCEPT ![p] = ErrLoadOnnx]
          /\ built' = [built EXCEPT ![p] = NoSession]
          /\ lpc' = [lpc EXCEPT ![p] = "unset_loading"]
    /\ UNCHANGED mgrVars
    /\ UNCHANGED <<use_gpu, loadAttempts, histVars>>
    /\ UNCHANGED <<dlVars, jobVars, ixVars, sideVars>>

\* The loaders other than p that are inside a call.
OthersInCall(p) == {q \in Loaders \ {p} : InCall(q)}

\* do_load_model: *self.model.lock().unwrap() = Some(model)
StoreSession(p) ==
    /\ modelGuard = Free
    /\ model' = built[p]

DoLoadStore(p) ==
    /\ lpc[p] = "store"
    /\ StoreSession(p)
    /\ result' = [result EXCEPT ![p] = "Ok"]
    /\ lpc' = [lpc EXCEPT ![p] = "unset_loading"]
    /\ disturbed' = [q \in Loaders |-> IF q \in OthersInCall(p) THEN TRUE ELSE disturbed[q]]
    /\ UNCHANGED <<labels, modelGuard, loading, error, current_type, cancel_flag,
                   current_use_gpu, loaded_type>>
    /\ UNCHANGED <<use_gpu, built, loadAttempts, lret, snap, reselected, last>>
    /\ UNCHANGED <<dlVars, jobVars, ixVars, sideVars>>

\* A load_model that clears the loading flag on success only.
LoadKeepsLoadingOnError(p) ==
    /\ lpc[p] = "unset_loading"
    /\ loading' = (result[p] # "Ok")
    /\ lpc' = [lpc EXCEPT ![p] = IF result[p] = "Ok" THEN "rec_gpu" ELSE "set_error"]
    /\ UNCHANGED <<labels, model, modelGuard, error, current_type, cancel_flag,
                   current_use_gpu, loaded_type>>
    /\ UNCHANGED <<use_gpu, result, built, loadAttempts, histVars>>
    /\ UNCHANGED <<dlVars, jobVars, ixVars, sideVars>>

\* load_model: *self.loading.lock().await = false
LoadUnsetLoading(p) ==
    /\ lpc[p] = "unset_loading"
    /\ loading' = FALSE
    /\ lpc' = [lpc EXCEPT ![p] = IF result[p] = "Ok" THEN "rec_gpu" ELSE "set_error"]
    /\ UNCHANGED <<labels, model, modelGuard, error, current_type, cancel_flag,
                   current_use_gpu, loaded_type>>
    /\ UNCHANGED <<use_gpu, result, built, loadAttempts, histVars>>
    /\ UNCHANGED <<dlVars, jobVars, ixVars, sideVars>>

\* The Err branch of a manager that goes dark on a failed load: it also drops
\* the session and the recorded variant.
LoadSetErrorUnload(p) ==
    /\ lpc[p] = "set_error"
    /\ error' = result[p]
    /\ model' = NoSession
    /\ loaded_type' = None
    /\ lret' = [lret EXCEPT ![p] = result[p]]
    /\ lpc' = [lpc EXCEPT ![p] = "ret"]
    /\ UNCHANGED <<labels, modelGuard, loading, current_type, cancel_flag, current_use_gpu>>
    /\ last' = NoLast
    /\ UNCHANGED <<use_gpu, result, built, loadAttempts, snap, disturbed, reselected>>
    /\ UNCHANGED <<dlVars, jobVars, ixVars, sideVars>>

\* load_model, Err branch: the message becomes the sticky error; the call returns it.
LoadSetError(p) ==
    /\ lpc[p] = "set_error"
    /\ error' = result[p]
    /\ lret' = [lret EXCEPT ![p] = result[p]]
    /\ lpc' = [lpc EXCEPT ![p] = "ret"]
    /\ UNCHANGED <<labels, model, modelGuard, loading, current_type, cancel_flag,
                   current_use_gpu, loaded_type>>
    /\ last' = NoLast
    /\ UNCHANGED <<use_gpu, result, built, loadAttempts, snap, disturbed, reselected>>
    /\ UNCHANGED <<dlVars, jobVars, ixVars, sideVars>>

\* load_model, Ok branch: *self.current_use_gpu.lock().await = use_gpu
LoadRecordGpu(p) ==
    /\ lpc[p] = "rec_gpu"
    /\ current_use_gpu' = use_gpu[p]
    /\ lpc' = [lpc EXCEPT ![p] = "rec_type"]
    /\ disturbed' = [q \in Loaders |-> IF q \in OthersInCall(p) THEN TRUE ELSE disturbed[q]]
    /\ UNCHANGED <<labels, model, modelGuard, loading, error, current_type, cancel_flag,
                   loaded_type>>
    /\ UNCHANGED <<use_gpu, result, built, loadAttempts, lret, snap, reselected, last>>
    /\ UNCHANGED <<dlVars, jobVars, ixVars, sideVars>>

\* load_model, Ok branch: *self.loaded_type.lock().await = Some(current_type); Ok
LoadRecordType(p) ==
    /\ lpc[p] = "rec_type"
    /\ loaded_type' = current_type
    /\ lret' = [lret EXCEPT ![p] = "Ok"]
    /\ lpc' = [lpc EXCEPT ![p] = "ret"]
    /\ disturbed' = [q \in Loaders |-> IF q \in OthersInCall(p) THEN TRUE ELSE disturbed[q]]
    /\ UNCHANGED <<labels, model, modelGuard, loading, error, current_type, cancel_flag,
                   current_use_gpu>>
    /\ last' = IF reselected[p] \/ disturbed[p] THEN NoLast
                ELSE [type |-> current_type, gpu |-> use_gpu[p]]
    /\ UNCHANGED <<use_gpu, result, built, loadAttempts, snap, reselected>>
    /\ UNCHANGED <<dlVars, jobVars, ixVars, sideVars>>

\* load_model has returned: the locals of the call are gone.
LoadReturnLocals(p) ==
    /\ lpc' = [lpc EXCEPT ![p] = "idle"]
    /\ lret' = [lret EXCEPT ![p] = None]
    /\ use_gpu' = [use_gpu EXCEPT ![p] = TRUE]
    /\ result' = [result EXCEPT ![p] = None]
    /\ built' = [built EXCEPT ![p] = NoSession]
    /\ snap' = [snap EXCEPT ![p] = NoSnap]
    /\ disturbed' = [disturbed EXCEPT ![p] = FALSE]
    /\ reselected' = [reselected EXCEPT ![p] = FALSE]
    /\ UNCHANGED <<mgrVars, loadAttempts, last>>

\* The load command hands load_model's Result to its caller; the call is over.
LoadReturn(p) ==
    /\ lpc[p] = "ret"
    /\ LoadReturnLocals(p)
    /\ UNCHANGED <<dlVars, jobVars, ixVars, sideVars>>

NextLoad ==
    \/ \E p \in Loaders, g \in BOOLEAN : LoadEnter(p, g)
    \/ \E p \in Loaders : LoadLockLoading(p)
    \/ \E p \in Loaders : LoadClearError(p)
    \/ \E p \in Loaders : DoLoadLabels(p)
    \/ \E p \in Loaders : DoLoadModelPath(p)
    \/ \E p \in Loaders : DoLoadBuild(p)
    \/ \E p \in Loaders : DoLoadStore(p)
    \/ \E p \in Loaders : LoadUnsetLoading(p)
    \/ \E p \in Loaders : LoadSetError(p)
    \/ \E p \in Loaders : LoadRecordGpu(p)
    \/ \E p \in Loaders : LoadRecordType(p)
    \/ \E p \in Loaders : LoadReturn(p)
    \/ \E t \in SelectTypes : set_model_type(t)

SpecLoad == Init /\ [][NextLoad]_vars

\* A step of the load_model call of p past its entry.
LoadStep(p) ==
    \/ LoadLockLoading(p)
    \/ LoadClearError(p)
    \/ DoLoadLabels(p)
    \/ DoLoadModelPath(p)
    \/ DoLoadBuild(p)
    \/ DoLoadStore(p)
    \/ LoadUnsetLoading(p)
    \/ LoadSetError(p)
    \/ LoadRecordGpu(p)
    \/ LoadRecordType(p)
    \/ LoadReturn(p)

\* The load_model calls are futures the runtime keeps polling: a call that
\* can take its next step takes it.
NextLoadLive ==
    \/ \E p \in Loaders : LoadEnter(p, TRUE)
    \/ \E p \in Loaders : LoadStep(p)
    \/ set_model_type("Base")

SpecLoadLive ==
    Init /\ [][NextLoadLive]_vars /\ \A p \in Loaders : WF_vars(LoadStep(p))

\* -------------------------------------------------------- classify_images
ErrNotLoaded == "Model not loaded. Call load_model first."
ErrNoLabels == "Labels not loaded"
ErrCancelled == "Classification cancelled by user"

\* fs_service::list_image_files: the number of image files the folder may hold.
FolderMax(j) == IF j = "c1" THEN MaxItems ELSE MaxOtherItems

\* ModelManager::cancel_classification
cancel_classification ==
    /\ cancel_flag' = TRUE
    /\ cancelReq' = [j \in Jobs |-> IF jpc[j] = "running" THEN TRUE ELSE cancelReq[j]]
    /\ UNCHANGED <<labels, model, modelGuard, loading, error, current_type,
                   current_use_gpu, loaded_type>>
    /\ UNCHANGED <<jpc, items, jret>>
    /\ dlCancelReq' = (dlCancelReq \/ dpc \in {"stream_config", "stream_model"})
    /\ UNCHANGED <<disk, dpc, current_type_enum, dest, dret, prVars>>
    /\ UNCHANGED <<loadVars, ixVars, sideVars>>

\* ModelManager::reset_cancel_flag
reset_cancel_flag == cancel_flag' = FALSE

\* ModelManager::is_cancelled
is_cancelled == cancel_flag

\* classify_images up to the parallel map: readiness test, reset of the cancel
\* flag, labels, listing of the n image files of the folder.
ClassifyBegin(j, n) ==
    /\ jpc[j] = "idle"
    /\ IF ~is_ready
          THEN /\ jret' = [jret EXCEPT ![j] = [status |-> ErrNotLoaded, results |-> <<>>]]
               /\ jpc' = [jpc EXCEPT ![j] = "ret"]
               /\ UNCHANGED <<cancel_flag, items, cancelReq>>
          ELSE /\ reset_cancel_flag
               /\ cancelReq' = [cancelReq EXCEPT ![j] = FALSE]
               /\ IF labels = None
                     THEN /\ jret' = [jret EXCEPT ![j] =
                                         [status |-> ErrNoLabels, results |-> <<>>]]
                          /\ jpc' = [jpc EXCEPT ![j] = "ret"]
                          /\ UNCHANGED items
                     ELSE IF n = 0
                     THEN /\ jret' = [jret EXCEPT ![j] = [status |-> "Ok", results |-> <<>>]]
                          /\ jpc' = [jpc EXCEPT ![j] = "ret"]
                          /\ UNCHANGED items
                     ELSE /\ items' = [items EXCEPT ![j] =
                                          [i \in 1..n |-> [pc |-> "pending", out |-> "none",
                                                           crop |-> crop_size(current_type),
                                                           labels |-> labels]]]
                          /\ jpc' = [jpc EXCEPT ![j] = "running"]
                          /\ UNCHANGED jret
    /\ UNCHANGED <<labels, model, modelGuard, loading, error, current_type,
                   current_use_gpu, loaded_type>>
    /\ UNCHANGED <<loadVars, dlVars, ixVars, sideVars>>

\* image_paths.len()
total(j) == Len(items[j])

ItemAt(j, i, at) == jpc[j] = "running" /\ i \in 1..total(j) /\ items[j][i].pc = at

SetItem(j, i, to, o) ==
    items' = [items EXCEPT ![j][i] = [pc |-> to, out |-> o, crop |-> items[j][i].crop,
                                      labels |-> items[j][i].labels]]

\* A check that starts every item, whatever the flag.
ItemCheckNoSkip(j, i) ==
    /\ ItemAt(j, i, "pending")
    /\ SetItem(j, i, "pre", "none")
    /\ UNCHANGED <<mgrVars, jpc, jret, cancelReq>>
    /\ UNCHANGED <<loadVars, dlVars, ixVars, sideVars>>

\* The map closure, "Check cancellation": a flagged job returns the sentinel for
\* the item, otherwise the item is started.
ItemCheck(j, i) ==
    /\ ItemAt(j, i, "pending")
    /\ SetItem(j, i, IF is_cancelled THEN "skipped" ELSE "pre", "none")
    /\ UNCHANGED <<mgrVars, jpc, jret, cancelReq>>
    /\ UNCHANGED <<loadVars, dlVars, ixVars, sideVars>>

\* The map closure: preprocess_image fails; the item gets no predictions and
\* the closure returns its ClassifyResult.
ItemPreprocessFail(j, i) ==
    /\ ItemAt(j, i, "pre")
    /\ SetItem(j, i, "done", "failed")
    /\ UNCHANGED <<mgrVars, jpc, jret, cancelReq>>
    /\ UNCHANGED <<loadVars, dlVars, ixVars, sideVars>>

\* A guard that is handed out while it is held.
LockSessionNoWait(w) == modelGuard' = w

\* model_lock.lock().unwrap()
LockSession(w) ==
    /\ modelGuard = Free
    /\ modelGuard' = w

\* The map closure after a successful preprocess: the session guard is taken;
\* with a session run_inference_with_model is entered, without one the item gets
\* no predictions and the guard is dropped again.
ItemLock(j, i) ==
    /\ ItemAt(j, i, "pre")
    /\ IF is_ready
          THEN /\ LockSession(<<j, i>>)
               /\ SetItem(j, i, "infer", "none")
          ELSE /\ modelGuard = Free
               /\ SetItem(j, i, "done", "failed")
               /\ UNCHANGED modelGuard
    /\ UNCHANGED <<labels, model, loading, error, current_type, cancel_flag,
                   current_use_gpu, loaded_type>>
    /\ UNCHANGED <<jpc, jret, cancelReq>>
    /\ UNCHANGED <<loadVars, dlVars, ixVars, sideVars>>

\* The outcomes of run_inference_with_model and the filter: predictions that
\* pass min_confidence, none that pass, or an error (device removal included).
InferOutcomes == {"preds", "empty", "failed"}

\* The map closure: run_inference_with_model returns, the guard is dropped, the
\* file is organized and tagged and the closure returns its ClassifyResult.
ItemInferDone(j, i, o) ==
    /\ ItemAt(j, i, "infer")
    /\ o \in InferOutcomes
    /\ modelGuard' = Free
    /\ SetItem(j, i, "done", o)
    /\ UNCHANGED <<labels, model, loading, error, current_type, cancel_flag,
                   current_use_gpu, loaded_type>>
    /\ UNCHANGED <<jpc, jret, cancelReq>>
    /\ UNCHANGED <<loadVars, dlVars, ixVars, sideVars>>

\* Vec<Prediction> of an outcome
predictions(o) == IF o = "preds" THEN <<"class">> ELSE <<>>

\* A closure that leaves the file name of an item without predictions empty.
closure_result_unnamed(i, it) ==
    IF it.pc = "skipped" \/ predictions(it.out) = <<>>
       THEN [file_name |-> <<>>, file_path |-> <<>>, predictions |-> <<>>]
       ELSE [file_name |-> <<i>>, file_path |-> <<i>>, predictions |-> predictions(it.out)]

\* What the map closure returns for item i: the sentinel with empty file_name
\* for a skipped item, else the ClassifyResult of the file.
closure_result(i, it) ==
    IF it.pc = "skipped"
       THEN [file_name |-> <<>>, file_path |-> <<>>, predictions |-> <<>>]
       ELSE [file_name |-> <<i>>, file_path |-> <<i>>, predictions |-> predictions(it.out)]

\* A filter on the prediction list instead of the file name.
keep_predictions(r) == r.predictions # <<>>

\* "Filter out empty results (cancelled items)"
keep(r) == r.file_name # <<>>

filtered_results(j) ==
    SelectSeq([i \in 1..total(j) |-> closure_result(i, items[j][i])], keep)

\* classify_images after the parallel map: filter, cancellation test, result.
ClassifyCollect(j) ==
    /\ jpc[j] = "running"
    /\ \A i \in 1..total(j) : items[j][i].pc \in {"done", "skipped"}
    /\ jret' = [jret EXCEPT ![j] =
                   IF is_cancelled /\ filtered_results(j) = <<>>
                      THEN [status |-> ErrCancelled, results |-> <<>>]
                      ELSE [status |-> "Ok", results |-> filtered_results(j)]]
    /\ jpc' = [jpc EXCEPT ![j] = "ret"]
    /\ UNCHANGED <<mgrVars, items, cancelReq>>
    /\ UNCHANGED <<loadVars, dlVars, ixVars, sideVars>>

\* The command hands its Result to the caller; the job is over.
ClassifyReturn(j) ==
    /\ jpc[j] = "ret"
    /\ jpc' = [jpc EXCEPT ![j] = "idle"]
    /\ items' = [items EXCEPT ![j] = <<>>]
    /\ jret' = [jret EXCEPT ![j] = NoRet]
    /\ cancelReq' = [cancelReq EXCEPT ![j] = FALSE]
    /\ UNCHANGED mgrVars
    /\ UNCHANGED <<loadVars, dlVars, ixVars, sideVars>>

\* --------------------------------------------------------- download_model
\* The failures of the registry lookup
RegistryErrors == {"Failed to fetch update info", "Failed to parse update info",
                   "Failed to resolve dynamic model URLs"}
ErrDownload == "Failed to download"

\* ModelManager::is_downloaded
is_downloaded ==
    /\ disk[model_file(current_type)] # "absent"
    /\ disk[config_file(current_type)] # "absent"


\* download_model with reset_cancel_flag moved in front of the is_downloaded
\* test.
DownloadBeginResetsFirst(t) ==
    /\ dpc = "idle"
    /\ IF t = None THEN UNCHANGED <<current_type, reselected, last>> ELSE Select(t)
    /\ UNCHANGED disk
    /\ reset_cancel_flag
    /\ IF is_downloaded'
          THEN /\ dpc' = "ret"
               /\ dret' = "Ok"
               /\ UNCHANGED current_type_enum
          ELSE /\ current_type_enum' = current_type'
               /\ dpc' = "resolve"
               /\ UNCHANGED dret
    /\ UNCHANGED <<labels, model, modelGuard, loading, error, current_use_gpu, loaded_type>>
    /\ UNCHANGED <<lpc, use_gpu, result, built, loadAttempts, lret, snap, disturbed>>
    /\ UNCHANGED <<dest, dlCancelReq, prVars, jobVars, ixVars, sideVars>>

\* download_model up to the reset of the cancel flag: the override is recorded,
\* and the call returns Ok when both files of the selected variant exist.
DownloadBegin(t) ==
    /\ dpc = "idle"
    /\ IF t = None THEN UNCHANGED <<current_type, reselected, last>> ELSE Select(t)
    /\ UNCHANGED disk
    /\ IF is_downloaded'
          THEN /\ dpc' = "ret"
               /\ dret' = "Ok"
               /\ UNCHANGED <<cancel_flag, current_type_enum>>
          ELSE /\ reset_cancel_flag
               /\ current_type_enum' = current_type'
               /\ dpc' = "resolve"
               /\ UNCHANGED dret
    /\ UNCHANGED <<labels, model, modelGuard, loading, error, current_use_gpu, loaded_type>>
    /\ UNCHANGED <<lpc, use_gpu, result, built, loadAttempts, lret, snap, disturbed>>
    /\ UNCHANGED <<dest, dlCancelReq, prVars, jobVars, ixVars, sideVars>>

DownloadFail(e) ==
    /\ dpc' = "ret"
    /\ dret' = e
    /\ dest' = None

\* download_model with the registry failure noticed only after the config
\* file was created.
DownloadResolveFailsLate ==
    /\ dpc = "resolve"
    /\ \/ /\ dpc' = "config"
          /\ UNCHANGED <<dret, dest, disk>>
       \/ /\ current_type_enum = "MobileNetV3Large"
          /\ disk' = [disk EXCEPT ![config_file(current_type_enum)] = "partial"]
          /\ \E e \in RegistryErrors : DownloadFail(e)
    /\ UNCHANGED <<mgrVars, loadVars, current_type_enum, dlCancelReq, prVars, jobVars, ixVars, sideVars>>

\* download_model, "Dynamic URL resolution for MobileNetV3Large": the registry
\* answers with both locations, or the call fails (the request fails, the
\* response is not parsed, or a location is missing).
DownloadResolve ==
    /\ dpc = "resolve"
    /\ \/ /\ dpc' = "config"
          /\ UNCHANGED <<dret, dest>>
       \/ /\ current_type_enum = "MobileNetV3Large"
          /\ \E e \in RegistryErrors : DownloadFail(e)
    /\ UNCHANGED <<mgrVars, loadVars, disk, current_type_enum, dlCancelReq, prVars, jobVars, ixVars, sideVars>>

\* download_model: the config file, then the weight file, is fetched when it does
\* not exist; with both present the call returns Ok.
DownloadNext ==
    /\ dpc \in {"config", "model"}
    /\ LET f == IF dpc = "config" THEN config_file(current_type_enum)
                                  ELSE model_file(current_type_enum)
       IN IF disk[f] = "absent"
             THEN /\ dest' = f
                  /\ dpc' = IF dpc = "config" THEN "send_config" ELSE "send_model"
                  /\ UNCHANGED dret
             ELSE IF dpc = "config"
             THEN /\ dpc' = "model"
                  /\ UNCHANGED <<dest, dret>>
             ELSE /\ dpc' = "ret"
                  /\ dret' = "Ok"
                  /\ UNCHANGED dest
    /\ UNCHANGED <<mgrVars, loadVars, disk, current_type_enum, dlCancelReq, prVars, jobVars, ixVars, sideVars>>

\* download_file: the request is sent; on a success status the destination file
\* is created and the loop starts with the response's content length (0 when
\* the server gives none), otherwise the call fails before any file exists.
DownloadSend(size) ==
    /\ dpc \in {"send_config", "send_model"}
    /\ \/ /\ disk' = [disk EXCEPT ![dest] = "partial"]
          /\ dpc' = IF dpc = "send_config" THEN "stream_config" ELSE "stream_model"
          /\ total_size' = size
          /\ downloaded' = 0
          /\ last_emit' = 0
          /\ UNCHANGED <<dret, dest, emitted>>
       \/ /\ DownloadFail(ErrDownload)
          /\ UNCHANGED <<disk, prVars>>
    /\ UNCHANGED <<mgrVars, loadVars, current_type_enum, dlCancelReq, jobVars, ixVars, sideVars>>

\* download_file, one chunk of len bytes received and written with the cancel
\* flag clear: the percentage is emitted when it exceeds the last one emitted.
DownloadChunkOk(len) ==
    /\ dpc \in {"stream_config", "stream_model"}
    /\ ~is_cancelled
    /\ downloaded + len <= MaxSize
    /\ total_size > 0 => downloaded + len <= total_size
    /\ downloaded' = downloaded + len
    /\ LET progress == (downloaded' * 100) \div total_size
       IN IF total_size > 0 /\ progress > last_emit
             THEN /\ emitted' = Append(emitted, progress)
                  /\ last_emit' = progress
             ELSE UNCHANGED <<emitted, last_emit>>
    /\ UNCHANGED <<disk, dpc, current_type_enum, dest, dret, dlCancelReq, total_size>>
    /\ UNCHANGED <<mgrVars, loadVars, jobVars, ixVars, sideVars>>

\* download_file, one received chunk: a set cancel flag deletes the partial file
\* and fails the call; an error in the chunk or in the write fails the call.
DownloadChunk ==
    /\ dpc \in {"stream_config", "stream_model"}
    /\ IF is_cancelled
          THEN /\ disk' = [disk EXCEPT ![dest] = "absent"]
               /\ DownloadFail("Download cancelled")
          ELSE /\ DownloadFail(ErrDownload)
               /\ UNCHANGED disk
    /\ UNCHANGED <<mgrVars, loadVars, current_type_enum, dlCancelReq, prVars, jobVars, ixVars, sideVars>>

\* download_file: the stream ends; 100 is emitted and the file is complete.
DownloadEnd ==
    /\ dpc \in {"stream_config", "stream_model"}
    /\ disk' = [disk EXCEPT ![dest] = "complete"]
    /\ dest' = None
    /\ emitted' = Append(emitted, 100)
    /\ IF dpc = "stream_config"
          THEN /\ dpc' = "model"
               /\ UNCHANGED dret
          ELSE /\ dpc' = "ret"
               /\ dret' = "Ok"
    /\ UNCHANGED <<total_size, downloaded, last_emit>>
    /\ UNCHANGED <<mgrVars, loadVars, current_type_enum, dlCancelReq, jobVars, ixVars, sideVars>>

\* download_model has returned: the locals of the call are gone.
DownloadReturnLocals ==
    /\ dpc' = "idle"
    /\ dret' = None
    /\ current_type_enum' = None
    /\ dlCancelReq' = FALSE
    /\ total_size' = 0
    /\ downloaded' = 0
    /\ last_emit' = 0
    /\ emitted' = <<>>
    /\ UNCHANGED <<disk, dest>>

\* The command hands download_model's Result to the caller.
DownloadReturn ==
    /\ dpc = "ret"
    /\ DownloadReturnLocals
    /\ UNCHANGED <<mgrVars, loadVars, jobVars, ixVars, sideVars>>

\* ------------------------------------------------------ run_indexing_task
\* The load_model call of the indexing task.
IndexLoader == "L2"

\* app_handle.emit("indexing-progress", ...): a status event, a progress event
\* or the event with done=true.
Emit(kind) ==
    /\ last_event' = kind
    /\ done_events' = IF kind = "done" THEN done_events + 1 ELSE done_events

\* trigger_indexing: the task is spawned and tests is_downloaded; without the
\* files it announces the download.
IndexBegin ==
    /\ xpc = "idle"
    /\ IF is_downloaded
          THEN /\ xpc' = "check_load"
               /\ last_event' = "none"
          ELSE /\ xpc' = "download"
               /\ last_event' = "status"
    /\ done_events' = 0
    /\ UNCHANGED <<photos, dbVars>>
    /\ UNCHANGED <<mgrVars, loadVars, dlVars, jobVars, dbcall, sideVars>>

\* run_indexing_task, step 1: download_model(None) is called.
IndexDownloadCall ==
    /\ xpc = "download"
    /\ DownloadBegin(None)

\* run_indexing_task, step 1: download_model has returned; an error ends the
\* run with the done event.
IndexDownloadDone ==
    /\ xpc = "download"
    /\ dpc = "ret"
    /\ DownloadReturnLocals
    /\ IF dret = "Ok"
          THEN /\ xpc' = "check_load"
               /\ UNCHANGED <<done_events, last_event>>
          ELSE /\ xpc' = "idle"
               /\ Emit("done")
    /\ UNCHANGED <<photos, dbVars>>
    /\ UNCHANGED <<mgrVars, loadVars, jobVars, dbcall, sideVars>>

\* run_indexing_task, step 2: is_ready is tested; without a session the load
\* is announced.
IndexCheckLoad ==
    /\ xpc = "check_load"
    /\ IF is_ready
          THEN /\ xpc' = "prepare"
               /\ UNCHANGED <<done_events, last_event>>
          ELSE /\ xpc' = "load"
               /\ Emit("status")
    /\ UNCHANGED <<photos, dbVars>>
    /\ UNCHANGED <<mgrVars, loadVars, dlVars, jobVars, dbcall, sideVars>>

\* run_indexing_task, step 2: load_model(true) is called.
IndexLoadCall ==
    /\ xpc = "load"
    /\ LoadEnter(IndexLoader, TRUE)

\* run_indexing_task, step 2: load_model has returned; an error ends the run
\* with the done event.
IndexLoadDone ==
    /\ xpc = "load"
    /\ lpc[IndexLoader] = "ret"
    /\ LoadReturnLocals(IndexLoader)
    /\ IF lret[IndexLoader] \in {"Ok", "NoOp"}
          THEN /\ xpc' = "prepare"
               /\ UNCHANGED <<done_events, last_event>>
          ELSE /\ xpc' = "idle"
               /\ Emit("done")
    /\ UNCHANGED <<photos, dbVars>>
    /\ UNCHANGED <<dlVars, jobVars, dbcall, sideVars>>

\* photos_to_index as the for_each receives it
WorkList(ids) ==
    [i \in 1..Len(ids) |-> [id |-> ids[i], pc |-> "pre", out |-> "none",
                            crop |-> crop_size(current_type), labels |-> labels]]

\* run_indexing_task, steps 3 and 4: the selection and the labels are read, the
\* vector table is ensured for (labels.len(), selection) and the photos without
\* an embedding are fetched. o is the outcome of ensure_vec_table, fetched tells
\* whether get_photos_to_index succeeds. Missing labels and either failure end
\* the run by a plain return; an empty list ends it with the done event.
IndexPrepare(o, fetched) ==
    /\ xpc = "prepare"
    /\ IF labels = None
          THEN /\ xpc' = "idle"
               /\ UNCHANGED <<photos, done_events, last_event, dbVars>>
          ELSE LET embedding_dim == num_labels(labels)
                   model_type_str == Debug(current_type)
                   photos_to_index ==
                       photos_from(ensure_table(embedding_dim, model_type_str, o), RunFolder, 1)
               IN /\ ensure_vec_table(embedding_dim, model_type_str, o)
                  /\ IF ensure_result(embedding_dim, model_type_str, o) = "Err" \/ ~fetched
                        THEN /\ xpc' = "idle"
                             /\ UNCHANGED <<photos, done_events, last_event>>
                        ELSE IF photos_to_index = <<>>
                        THEN /\ xpc' = "idle"
                             /\ Emit("done")
                             /\ UNCHANGED photos
                        ELSE /\ xpc' = "running"
                             /\ photos' = WorkList(photos_to_index)
                             /\ UNCHANGED <<done_events, last_event>>
    /\ UNCHANGED <<mgrVars, loadVars, dlVars, jobVars, dbcall, sideVars>>

PhotoAt(i, at) == xpc = "running" /\ i \in 1..Len(photos) /\ photos[i].pc = at

SetPhoto(i, to, o) ==
    photos' = [photos EXCEPT ![i] = [id |-> photos[i].id, pc |-> to, out |-> o,
                                     crop |-> photos[i].crop, labels |-> photos[i].labels]]

\* The for_each closure, "Progress update": counter.fetch_add and the batched
\* progress event.
Progress ==
    LET current == Cardinality({k \in 1..Len(photos) : photos[k].pc = "done"}) + 1
    IN IF current % 5 = 0 \/ current = Len(photos)
          THEN Emit("progress")
          ELSE UNCHANGED <<done_events, last_event>>

\* The for_each closure: preprocess_image fails.
IndexPreprocessFail(i) ==
    /\ PhotoAt(i, "pre")
    /\ SetPhoto(i, "done", "pre_failed")
    /\ Progress
    /\ UNCHANGED <<mgrVars, loadVars, dlVars, jobVars, xpc, dbVars, dbcall, sideVars>>

\* The for_each closure after a successful preprocess: the session guard is
\* taken; with a session run_inference_with_model is entered.
IndexLock(i) ==
    /\ PhotoAt(i, "pre")
    /\ IF is_ready
          THEN /\ LockSession(<<"ix", i>>)
               /\ SetPhoto(i, "infer", "none")
               /\ UNCHANGED <<done_events, last_event>>
          ELSE /\ modelGuard = Free
               /\ SetPhoto(i, "done", "infer_failed")
               /\ Progress
               /\ UNCHANGED modelGuard
    /\ UNCHANGED <<labels, model, loading, error, current_type, cancel_flag,
                   current_use_gpu, loaded_type>>
    /\ UNCHANGED <<loadVars, dlVars, jobVars, xpc, dbVars, dbcall, sideVars>>

\* What becomes of a photo after the guard was taken: inference fails, or it
\* returns the embedding and set_embedding is called, which may fail.
IndexOutcomes == {"infer_failed", "save_failed", "saved"}

\* The for_each closure: run_inference_with_model returns the embedding or an
\* error, the guard is dropped and set_embedding saves an embedding.
IndexInferDone(i, o) ==
    /\ PhotoAt(i, "infer")
    /\ o \in IndexOutcomes
    /\ modelGuard' = Free
    /\ LET emb == embedding_of(model.type, photos[i].id)
       IN IF o = "infer_failed"
             THEN /\ SetPhoto(i, "done", "infer_failed")
                  /\ UNCHANGED dbVars
             ELSE /\ set_embedding(photos[i].id, emb, o = "saved")
                  /\ SetPhoto(i, "done",
                              IF set_embedding_result(emb, o = "saved") = "Ok"
                                 THEN "saved" ELSE "save_failed")
    /\ Progress
    /\ UNCHANGED <<labels, model, loading, error, current_type, cancel_flag,
                   current_use_gpu, loaded_type>>
    /\ UNCHANGED <<loadVars, dlVars, jobVars, xpc, dbcall, sideVars>>

\* The blocking task ends: the final indexing-progress event, done.
IndexEnd ==
    /\ xpc = "running"
    /\ \A i \in 1..Len(photos) : photos[i].pc = "done"
    /\ xpc' = "idle"
    /\ photos' = <<>>
    /\ Emit("done")
    /\ UNCHANGED dbVars
    /\ UNCHANGED <<mgrVars, loadVars, dlVars, jobVars, dbcall, sideVars>>

\* ------------------------------------------------------- get_model_status
\* The command get_model_status: is_downloaded, is_loading, is_ready and
\* get_error in turn. is_ready locks the std::sync::Mutex around the session,
\* so the call gets past it only while no worker holds that guard.
get_model_status ==
    /\ modelGuard = Free
    /\ status' = [downloaded |-> is_downloaded, loading |-> loading,
                  ready |-> is_ready, error |-> get_error]
    /\ UNCHANGED <<mgrVars, loadVars, dlVars, jobVars, ixVars, watchVars, photo_path, tagVars, infVars>>

\* A drop of the WatcherState that leaves its watch behind.
WatchDropLeaks(c) ==
    /\ wpc[c] = "drop"
    /\ wstate' = NoWatch
    /\ queued' = 0
    /\ dbpc' = "recv"
    /\ orphans' = IF dbpc = "sleep" \/ queued > 0
                     THEN (IF orphans < MaxEvents THEN orphans + 1 ELSE orphans)
                     ELSE orphans
    /\ wpc' = [wpc EXCEPT ![c] = "install"]
    /\ UNCHANGED <<wlock, wpath, watches, folder_changed, unnotified>>
    /\ UNCHANGED <<mgrVars, loadVars, dlVars, jobVars, ixVars, status, photo_path, tagVars, infVars>>

\* watch_folder: the state mutex is taken; a call for the path already watched
\* returns at once.
WatchEnter(c, path) ==
    /\ wpc[c] = "idle"
    /\ wlock = NoCaller
    /\ IF wstate = path
          THEN /\ wpc' = [wpc EXCEPT ![c] = "ret"]
               /\ UNCHANGED <<wlock, wpath>>
          ELSE /\ wpc' = [wpc EXCEPT ![c] = "drop"]
               /\ wlock' = c
               /\ wpath' = [wpath EXCEPT ![c] = path]
    /\ UNCHANGED <<wstate, watches, queued, folder_changed, dbpc, orphans, unnotified>>
    /\ UNCHANGED <<mgrVars, loadVars, dlVars, jobVars, ixVars, status, photo_path, tagVars, infVars>>

\* watch_folder, "*state = None": the old WatcherState is dropped, which stops
\* its watch and drops the sender of its channel. Its debounce task keeps
\* running on what the channel still holds: a task that sleeps or has messages
\* left emits once more before recv returns None.
WatchDrop(c) ==
    /\ wpc[c] = "drop"
    /\ wstate' = NoWatch
    /\ watches' = watches \ {wstate}
    /\ queued' = 0
    /\ dbpc' = "recv"
    /\ orphans' = IF dbpc = "sleep" \/ queued > 0
                     THEN (IF orphans < MaxEvents THEN orphans + 1 ELSE orphans)
                     ELSE orphans
    /\ wpc' = [wpc EXCEPT ![c] = "install"]
    /\ UNCHANGED <<wlock, wpath, folder_changed, unnotified>>
    /\ UNCHANGED <<mgrVars, loadVars, dlVars, jobVars, ixVars, status, photo_path, tagVars, infVars>>

\* watch_folder: the debounce task is spawned, the watcher is created and the
\* path is watched; on success the new WatcherState is stored, on a failure the
\* watcher is dropped again and the state stays None. The mutex is released.
WatchInstall(c, o) ==
    /\ wpc[c] = "install"
    /\ IF o = "ok"
          THEN /\ watches' = watches \cup {wpath[c]}
               /\ wstate' = wpath[c]
          ELSE UNCHANGED <<watches, wstate>>
    /\ wlock' = NoCaller
    /\ wpath' = [wpath EXCEPT ![c] = None]
    /\ wpc' = [wpc EXCEPT ![c] = "ret"]
    /\ UNCHANGED <<queued, folder_changed, dbpc, orphans, unnotified>>
    /\ UNCHANGED <<mgrVars, loadVars, dlVars, jobVars, ixVars, status, photo_path, tagVars, infVars>>

\* watch_folder has returned.
WatchReturn(c) ==
    /\ wpc[c] = "ret"
    /\ wpc' = [wpc EXCEPT ![c] = "idle"]
    /\ UNCHANGED <<wstate, wlock, wpath, watches, queued, folder_changed, dbpc, orphans,
                   unnotified>>
    /\ UNCHANGED <<mgrVars, loadVars, dlVars, jobVars, ixVars, status, photo_path, tagVars, infVars>>

\* The watcher's callback: a create, modify or remove event in a watched
\* folder sends a message to the debounce task.
FsEvent(path) ==
    /\ path \in watches
    /\ queued < MaxEvents
    /\ queued' = queued + 1
    /\ unnotified' = IF unnotified < MaxEvents THEN unnotified + 1 ELSE unnotified
    /\ UNCHANGED <<wstate, wlock, wpc, wpath, watches, folder_changed, dbpc, orphans>>
    /\ UNCHANGED <<mgrVars, loadVars, dlVars, jobVars, ixVars, status, photo_path, tagVars, infVars>>

\* The debounce task, "Wait for first event": recv takes the first message of
\* a burst and the task goes to sleep for 300 ms.
DebounceRecv ==
    /\ dbpc = "recv"
    /\ queued > 0
    /\ queued' = queued - 1
    /\ dbpc' = "sleep"
    /\ UNCHANGED <<wstate, wlock, wpc, wpath, watches, folder_changed, orphans, unnotified>>
    /\ UNCHANGED <<mgrVars, loadVars, dlVars, jobVars, ixVars, status, photo_path, tagVars, infVars>>

\* A debounce task that emits without draining the channel.
DebounceNoDrain ==
    /\ dbpc = "sleep"
    /\ dbpc' = "recv"
    /\ folder_changed' = IF folder_changed < MaxEvents THEN folder_changed + 1
                                                       ELSE folder_changed
    /\ unnotified' = 0
    /\ UNCHANGED <<wstate, wlock, wpc, wpath, watches, queued, orphans>>
    /\ UNCHANGED <<mgrVars, loadVars, dlVars, jobVars, ixVars, status, photo_path, tagVars, infVars>>

\* The debounce task after its sleep: it drains the channel and emits
\* folder-changed.
Debounce ==
    /\ dbpc = "sleep"
    /\ queued' = 0
    /\ dbpc' = "recv"
    /\ folder_changed' = IF folder_changed < MaxEvents THEN folder_changed + 1
                                                       ELSE folder_changed
    /\ unnotified' = 0
    /\ UNCHANGED <<wstate, wlock, wpc, wpath, watches, orphans>>
    /\ UNCHANGED <<mgrVars, loadVars, dlVars, jobVars, ixVars, status, photo_path, tagVars, infVars>>

\* The debounce task of a dropped watcher: it takes what its channel still
\* holds, emits folder-changed, and ends when recv returns None.
OrphanEmit ==
    /\ orphans > 0
    /\ orphans' = orphans - 1
    /\ folder_changed' = IF folder_changed < MaxEvents THEN folder_changed + 1
                                                       ELSE folder_changed
    /\ unnotified' = 0
    /\ UNCHANGED <<wstate, wlock, wpc, wpath, watches, queued, dbpc>>
    /\ UNCHANGED <<mgrVars, loadVars, dlVars, jobVars, ixVars, status, photo_path, tagVars, infVars>>

\* ---------------------------------------------------------- specifications
\* ------------------------------------------------ run_inference_with_model
\* The f32 values of the model: zero, the powers of two 2^exp from the smallest
\* subnormal to the largest, with a sign, and infinity. On these values the
\* operations below are the IEEE 754 single-precision ones, exactly.
F32MinExp == -149
F32MaxExp == 127
F32Zero == [kind |-> "zero", neg |-> FALSE, exp |-> 0]
F32Inf == [kind |-> "inf", neg |-> FALSE, exp |-> 0]
pow2(neg, e) == [kind |-> "pow2", neg |-> neg, exp |-> e]

\* 2^e rounded to f32 (round to nearest, ties to even): infinity above the
\* largest exponent, zero below the smallest subnormal.
f32_round(neg, e) ==
    IF e > F32MaxExp THEN [F32Inf EXCEPT !.neg = neg]
    ELSE IF e < F32MinExp THEN F32Zero
    ELSE pow2(neg, e)

\* x * x
f32_square(x) ==
    CASE x.kind = "zero" -> F32Zero
      [] x.kind = "inf" -> F32Inf
      [] x.kind = "pow2" -> f32_round(FALSE, 2 * x.exp)

\* a + b, for the sums of the model: one of the terms is zero or infinity.
f32_add(a, b) ==
    CASE a.kind = "zero" -> b
      [] b.kind = "zero" -> a
      [] a.kind = "inf" \/ b.kind = "inf" -> F32Inf

\* Iterator::sum::<f32>() over the squares of the first n components
RECURSIVE sum_squares(_, _)
sum_squares(v, n) ==
    IF n = 0 THEN F32Zero ELSE f32_add(sum_squares(v, n - 1), f32_square(v[n]))

\* f32::sqrt of a sum of squares
f32_sqrt(x) ==
    IF x.kind = "pow2" THEN pow2(FALSE, x.exp \div 2) ELSE x

\* x / y for y > 0
f32_div(x, y) ==
    CASE x.kind = "zero" -> F32Zero
      [] x.kind = "pow2" /\ y.kind = "inf" -> F32Zero
      [] x.kind = "pow2" /\ y.kind = "pow2" -> f32_round(x.neg, x.exp - y.exp)

\* `let l2_norm = logits.iter().map(|x| x * x).sum::<f32>().sqrt()`
l2_norm(v) == f32_sqrt(sum_squares(v, Len(v)))

\* `let embedding = if l2_norm > 0.0 { logits / l2_norm } else { logits.clone() }`
normalized(v) ==
    IF l2_norm(v).kind \in {"pow2", "inf"}
       THEN [i \in 1..Len(v) |-> f32_div(v[i], l2_norm(v))]
       ELSE v

\* The logit vectors of the model: the zero vector and the vectors with one
\* non-zero component, a power of two of either sign.
LogitVectors ==
    {[i \in 1..MaxLogits |-> F32Zero]} \cup
    {[i \in 1..MaxLogits |-> IF i = hot THEN pow2(neg, e) ELSE F32Zero] :
        hot \in 1..MaxLogits, neg \in BOOLEAN, e \in F32MinExp..F32MaxExp}

\* run_inference_with_model on a session whose forward pass yields v: the
\* embedding is returned with the predictions.
RunInference(v) ==
    /\ logits' = v
    /\ embedding_ret' = normalized(v)
    /\ UNCHANGED <<mgrVars, loadVars, dlVars, jobVars, ixVars, status, watchVars, photo_path, tagVars>>

\* ------------------------------------- classify_images: organize and tags
\* Database::upsert_photo: the id of the row of the path, inserted when there
\* is none.
upsert_id(path) ==
    IF photo_rows[path] # 0 THEN photo_rows[path] ELSE row_id(path)

\* Database::add_tags, committed: the tags of the photo are deleted and the
\* given ones inserted.
add_tags(photo_id, new_tags) ==
    tags' = [tags EXCEPT ![photo_id] = new_tags]

\* classify_images after the early returns, with the options of the command:
\* every image file still in the folder is an item.
OrganizeBegin(organize, copy_files) ==
    /\ ojob.pc = "idle"
    /\ ojob' = [pc |-> "running", organize |-> organize, copy_files |-> copy_files]
    /\ oitems' = [f \in Files |-> IF f \in moved THEN NoItem
                                                ELSE [NoItem EXCEPT !.pc = "infer"]]
    /\ UNCHANGED <<photo_rows, tags, moved>>
    /\ UNCHANGED <<mgrVars, loadVars, dlVars, jobVars, ixVars, status, watchVars, photo_path, infVars>>

\* The item's predictions: the filtered output of the session, or the empty
\* list when preprocessing or inference failed. final_path starts as img_path.
ItemPredicted(f, preds) ==
    /\ oitems[f].pc = "infer"
    /\ oitems' = [oitems EXCEPT ![f] = [@ EXCEPT !.pc = "organize",
                                                 !.predictions = preds,
                                                 !.final_path = img_path(f)]]
    /\ UNCHANGED <<photo_rows, tags, moved, ojob>>
    /\ UNCHANGED <<mgrVars, loadVars, dlVars, jobVars, ixVars, status, watchVars, photo_path, infVars>>

\* An organize step that takes the destination as the final path after a copy
\* too.
ItemOrganizeCopyIsFinal(f, o) ==
    /\ oitems[f].pc = "organize"
    /\ LET it == oitems[f]
           dst == dest_path(f, it.predictions[1])
       IN IF ojob.organize /\ it.predictions # <<>>
             THEN IF o = "ok"
                     THEN /\ oitems' = [oitems EXCEPT ![f] =
                                 [it EXCEPT !.pc = "upsert", !.moved_to = dst,
                                            !.final_path = dst,
                                            !.org = IF ojob.copy_files THEN "copied" ELSE "moved"]]
                          /\ moved' = IF ojob.copy_files THEN moved ELSE moved \cup {f}
                     ELSE /\ oitems' = [oitems EXCEPT ![f] = [it EXCEPT !.pc = "upsert", !.org = o]]
                          /\ UNCHANGED moved
             ELSE /\ o = "ok"
                  /\ oitems' = [oitems EXCEPT ![f] = [it EXCEPT !.pc = "upsert"]]
                  /\ UNCHANGED moved
    /\ UNCHANGED <<photo_rows, tags, ojob>>
    /\ UNCHANGED <<mgrVars, loadVars, dlVars, jobVars, ixVars, status, watchVars, photo_path, infVars>>

\* classify_images, `if organize && !predictions.is_empty()`: the directory
\* named after the top class is created and the file copied or renamed into it;
\* moved_to is set when that succeeded and final_path only after a rename.
ItemOrganize(f, o) ==
    /\ oitems[f].pc = "organize"
    /\ LET it == oitems[f]
           dst == dest_path(f, it.predictions[1])
       IN IF ojob.organize /\ it.predictions # <<>>
             THEN IF o = "ok"
                     THEN /\ oitems' = [oitems EXCEPT ![f] =
                                 [it EXCEPT !.pc = "upsert", !.moved_to = dst,
                                            !.final_path = IF ojob.copy_files THEN it.final_path
                                                                              ELSE dst,
                                            !.org = IF ojob.copy_files THEN "copied" ELSE "moved"]]
                          /\ moved' = IF ojob.copy_files THEN moved ELSE moved \cup {f}
                     ELSE /\ oitems' = [oitems EXCEPT ![f] = [it EXCEPT !.pc = "upsert", !.org = o]]
                          /\ UNCHANGED moved
             ELSE /\ o = "ok"
                  /\ oitems' = [oitems EXCEPT ![f] = [it EXCEPT !.pc = "upsert"]]
                  /\ UNCHANGED moved
    /\ UNCHANGED <<photo_rows, tags, ojob>>
    /\ UNCHANGED <<mgrVars, loadVars, dlVars, jobVars, ixVars, status, watchVars, photo_path, infVars>>

\* classify_images, `if let Ok((id, _)) = db_state.upsert_photo(final_path ..)`:
\* the row of the final path is found or inserted; when the call fails the
\* item is complete with nothing stored.
ItemUpsert(f, ok) ==
    /\ oitems[f].pc = "upsert"
    /\ LET it == oitems[f]
           id == upsert_id(it.final_path)
       IN IF ok
             THEN /\ photo_rows' = [photo_rows EXCEPT ![it.final_path] = id]
                  /\ oitems' = [oitems EXCEPT ![f] = [it EXCEPT !.pc = "add_tags", !.id = id]]
             ELSE /\ oitems' = [oitems EXCEPT ![f] = [it EXCEPT !.pc = "done", !.db = "upsert_failed"]]
                  /\ UNCHANGED photo_rows
    /\ UNCHANGED <<tags, moved, ojob>>
    /\ UNCHANGED <<mgrVars, loadVars, dlVars, jobVars, ixVars, status, watchVars, photo_path, infVars>>

\* classify_images, `if !tags.is_empty()`: add_tags is called with the class
\* names of the predictions; a failure is logged (the transaction is rolled
\* back). The item is complete.
ItemAddTags(f, ok) ==
    /\ oitems[f].pc = "add_tags"
    /\ LET it == oitems[f]
       IN IF it.predictions = <<>>
             THEN /\ ok
                  /\ oitems' = [oitems EXCEPT ![f] = [it EXCEPT !.pc = "done", !.db = "no_tags"]]
                  /\ UNCHANGED tags
             ELSE IF ok
             THEN /\ add_tags(it.id, it.predictions)
                  /\ oitems' = [oitems EXCEPT ![f] = [it EXCEPT !.pc = "done", !.db = "stored"]]
             ELSE /\ oitems' = [oitems EXCEPT ![f] = [it EXCEPT !.pc = "done", !.db = "tags_failed"]]
                  /\ UNCHANGED tags
    /\ UNCHANGED <<photo_rows, moved, ojob>>
    /\ UNCHANGED <<mgrVars, loadVars, dlVars, jobVars, ixVars, status, watchVars, photo_path, infVars>>

\* classify_images: every item returned its ClassifyResult; the job is over.
OrganizeEnd ==
    /\ ojob.pc = "running"
    /\ \A f \in Files : oitems[f].pc \in {"none", "done"}
    /\ ojob' = NoJob
    /\ oitems' = [f \in Files |-> NoItem]
    /\ UNCHANGED <<photo_rows, tags, moved>>
    /\ UNCHANGED <<mgrVars, loadVars, dlVars, jobVars, ixVars, status, watchVars, photo_path, infVars>>

\* A manager whose MobileNetV3Large session is loaded (the start-up task has
\* downloaded and loaded it); the files of the other variants are not on disk.
InitReady ==
    /\ InitCalls
    /\ InitDb
    /\ disk = [f \in ModelFiles |->
                 IF f \in {model_file("MobileNetV3Large"), config_file("MobileNetV3Large")}
                    THEN "complete" ELSE "absent"]
    /\ labels = "MobileNetV3Large"
    /\ model = [type |-> "MobileNetV3Large", gpu |-> TRUE, id |-> 1]
    /\ modelGuard = Free
    /\ loading = FALSE
    /\ error = None
    /\ current_type = "MobileNetV3Large"
    /\ cancel_flag = FALSE
    /\ current_use_gpu = TRUE
    /\ loaded_type = "MobileNetV3Large"
    /\ lpc = [p \in Loaders |-> "idle"]
    /\ use_gpu = [p \in Loaders |-> TRUE]
    /\ result = [p \in Loaders |-> None]
    /\ built = [p \in Loaders |-> NoSession]
    /\ loadAttempts = 1
    /\ lret = [p \in Loaders |-> None]
    /\ snap = [p \in Loaders |-> NoSnap]
    /\ disturbed = [p \in Loaders |-> FALSE]
    /\ reselected = [p \in Loaders |-> FALSE]
    /\ last = [type |-> "MobileNetV3Large", gpu |-> TRUE]

\* Two classify_images commands and cancel_classification.
NextClassify ==
    \/ \E j \in Jobs : \E n \in 0..FolderMax(j) : ClassifyBegin(j, n)
    \/ \E j \in Jobs : \E i \in 1..total(j) : ItemCheck(j, i)
    \/ \E j \in Jobs : \E i \in 1..total(j) : ItemPreprocessFail(j, i)
    \/ \E j \in Jobs : \E i \in 1..total(j) : ItemLock(j, i)
    \/ \E j \in Jobs : \E i \in 1..total(j) : \E o \in InferOutcomes : ItemInferDone(j, i, o)
    \/ \E j \in Jobs : ClassifyCollect(j)
    \/ \E j \in Jobs : ClassifyReturn(j)
    \/ cancel_classification

SpecClassify == InitReady /\ [][NextClassify]_vars

\* One classify_images command, cancel_classification and download_model.
NextCancel ==
    \/ \E n \in 0..FolderMax("c1") : ClassifyBegin("c1", n)
    \/ \E i \in 1..total("c1") : ItemCheck("c1", i)
    \/ \E i \in 1..total("c1") : ItemPreprocessFail("c1", i)
    \/ \E i \in 1..total("c1") : ItemLock("c1", i)
    \/ \E i \in 1..total("c1") : \E o \in InferOutcomes : ItemInferDone("c1", i, o)
    \/ ClassifyCollect("c1")
    \/ ClassifyReturn("c1")
    \/ cancel_classification
    \/ \E t \in SelectTypes \cup {None} : DownloadBegin(t)
    \/ DownloadResolve
    \/ DownloadNext
    \/ DownloadSend(0)
    \/ DownloadChunk
    \/ DownloadEnd
    \/ DownloadReturn

SpecCancel == InitReady /\ [][NextCancel]_vars

\* A fresh installation: ModelManager::new and Database::new, no model file on
\* disk yet.
InitFresh ==
    /\ InitCalls
    /\ InitDb
    /\ disk = [f \in ModelFiles |-> "absent"]
    /\ labels = None
    /\ model = NoSession
    /\ modelGuard = Free
    /\ loading = FALSE
    /\ error = None
    /\ current_type = "MobileNetV3Large"
    /\ cancel_flag = FALSE
    /\ current_use_gpu = TRUE
    /\ loaded_type = None
    /\ lpc = [p \in Loaders |-> "idle"]
    /\ use_gpu = [p \in Loaders |-> TRUE]
    /\ result = [p \in Loaders |-> None]
    /\ built = [p \in Loaders |-> NoSession]
    /\ loadAttempts = 0
    /\ lret = [p \in Loaders |-> None]
    /\ snap = [p \in Loaders |-> NoSnap]
    /\ disturbed = [p \in Loaders |-> FALSE]
    /\ reselected = [p \in Loaders |-> FALSE]
    /\ last = NoLast

\* Indexing runs, each with its own download_model and load_model calls, and
\* set_model_type.
NextIndex ==
    \/ IndexBegin
    \/ IndexDownloadCall
    \/ DownloadResolve
    \/ DownloadNext
    \/ DownloadSend(0)
    \/ DownloadChunk
    \/ DownloadEnd
    \/ IndexDownloadDone
    \/ IndexCheckLoad
    \/ IndexLoadCall
    \/ LoadLockLoading(IndexLoader)
    \/ LoadClearError(IndexLoader)
    \/ DoLoadLabels(IndexLoader)
    \/ DoLoadModelPath(IndexLoader)
    \/ DoLoadBuild(IndexLoader)
    \/ DoLoadStore(IndexLoader)
    \/ LoadUnsetLoading(IndexLoader)
    \/ LoadSetError(IndexLoader)
    \/ LoadRecordGpu(IndexLoader)
    \/ LoadRecordType(IndexLoader)
    \/ IndexLoadDone
    \/ \E o \in EnsureOutcomes, fetched \in BOOLEAN : IndexPrepare(o, fetched)
    \/ \E i \in 1..Len(photos) : IndexPreprocessFail(i)
    \/ \E i \in 1..Len(photos) : IndexLock(i)
    \/ \E i \in 1..Len(photos) : \E o \in IndexOutcomes : IndexInferDone(i, o)
    \/ IndexEnd
    \/ \E t \in SelectTypes : set_model_type(t)

SpecIndex == InitFresh /\ [][NextIndex]_vars

\* download_model calls, one after the other, with chunks of every length and
\* servers that give a content length or none, and status queries at any time.
NextProgress ==
    \/ \E t \in SelectTypes \cup {None} : DownloadBegin(t)
    \/ DownloadResolve
    \/ DownloadNext
    \/ \E size \in 0..MaxSize : DownloadSend(size)
    \/ \E len \in 1..MaxSize : DownloadChunkOk(len)
    \/ DownloadChunk
    \/ DownloadEnd
    \/ DownloadReturn
    \/ get_model_status

SpecProgress == InitFresh /\ [][NextProgress]_vars

\* Status queries beside a classify_images job and an indexing run on a loaded
\* model.
NextStatus ==
    \/ get_model_status
    \/ \E n \in 0..FolderMax("c2") : ClassifyBegin("c2", n)
    \/ \E i \in 1..total("c2") : ItemCheck("c2", i)
    \/ \E i \in 1..total("c2") : ItemPreprocessFail("c2", i)
    \/ \E i \in 1..total("c2") : ItemLock("c2", i)
    \/ \E i \in 1..total("c2") : \E o \in InferOutcomes : ItemInferDone("c2", i, o)
    \/ ClassifyCollect("c2")
    \/ ClassifyReturn("c2")
    \/ cancel_classification
    \/ \E t \in SelectTypes : set_model_type(t)
    \/ IndexBegin
    \/ IndexCheckLoad
    \/ IndexPrepare("ok", TRUE)
    \/ \E i \in 1..Len(photos) : IndexPreprocessFail(i)
    \/ \E i \in 1..Len(photos) : IndexLock(i)
    \/ \E i \in 1..Len(photos) : \E o \in IndexOutcomes : IndexInferDone(i, o)
    \/ IndexEnd

SpecStatus == InitReady /\ [][NextStatus]_vars

\* watch_folder calls of two callers, with the events of the watched folder.
NextWatch ==
    \/ \E c \in Watchers, path \in WatchPaths : WatchEnter(c, path)
    \/ \E c \in Watchers : WatchDrop(c)
    \/ \E c \in Watchers, o \in {"ok", "create_failed", "watch_failed"} : WatchInstall(c, o)
    \/ \E c \in Watchers : WatchReturn(c)
    \/ \E path \in WatchPaths : FsEvent(path)
    \/ DebounceRecv
    \/ Debounce
    \/ OrphanEmit

SpecWatch == Init /\ [][NextWatch]_vars

\* The watcher with its debounce tasks scheduled: a task that can receive, or
\* whose sleep is over, runs.
SpecWatchLive ==
    Init /\ [][NextWatch]_vars /\ WF_vars(DebounceRecv) /\ WF_vars(Debounce) /\ WF_vars(OrphanEmit)

\* The database alone, with any table photos: the vector table of the default
\* variant is created, photos get their embeddings, and callers search for
\* similar photos and list the photos still to index.
InitSimilar ==
    /\ InitCalls
    /\ InitTables
    /\ InitManager
    /\ photo_path \in PhotoTables

NextSimilar ==
    \/ DbEnsure(num_labels("MobileNetV3Large"), Debug("MobileNetV3Large"), "ok")
    \/ \E id \in PhotoIds : DbSetEmbedding(id, embedding_of("MobileNetV3Large", id), TRUE)
    \/ \E photo_id \in PhotoIds, folder \in Folders, max_distance \in 1..MaxDistance,
          limit \in 1..Cardinality(PhotoIds) :
          FindSimilar(photo_id, folder, max_distance, limit)
    \/ \E folder \in Folders : GetPhotosToIndex(folder)

SpecSimilar == InitSimilar /\ [][NextSimilar]_vars

\* Two indexing runs over the same folder with the model loaded: the run of
\* run_indexing_task, and the set_embedding calls of another run for the same
\* photos, with any vector.
NextUpsert ==
    \/ IndexBegin
    \/ IndexCheckLoad
    \/ IndexPrepare("ok", TRUE)
    \/ \E i \in 1..Len(photos) : IndexPreprocessFail(i)
    \/ \E i \in 1..Len(photos) : IndexLock(i)
    \/ \E i \in 1..Len(photos) : \E o \in IndexOutcomes : IndexInferDone(i, o)
    \/ IndexEnd
    \/ \E id \in 1..MaxPhotos, v \in Vectors, ok \in BOOLEAN : DbSetEmbedding(id, v, ok)

SpecUpsert == InitReady /\ [][NextUpsert]_vars

\* classify_images jobs one after the other on one folder, with every option,
\* every prediction list per file and every outcome of the file operations
\* and of the database calls; the items of a job run in parallel.
NextTags ==
    \/ \E organize \in BOOLEAN, copy_files \in BOOLEAN : OrganizeBegin(organize, copy_files)
    \/ \E f \in Files, preds \in PredictionLists : ItemPredicted(f, preds)
    \/ \E f \in Files, o \in {"ok", "mkdir_failed", "op_failed"} : ItemOrganize(f, o)
    \/ \E f \in Files, ok \in BOOLEAN : ItemUpsert(f, ok)
    \/ \E f \in Files, ok \in BOOLEAN : ItemAddTags(f, ok)
    \/ OrganizeEnd

SpecTags == InitReady /\ [][NextTags]_vars

\* Forward passes with every logit vector of the model.
NextEmbedding == \E v \in LogitVectors : RunInference(v)

SpecEmbedding == InitReady /\ [][NextEmbedding]_vars

\* No command of the front end is in progress.
Quiet ==
    /\ xpc = "idle"
    /\ dpc = "idle"
    /\ jpc["c2"] = "idle"
    /\ lpc["L1"] = "idle"

\* The operations that can reach the manager, started with no model file on
\* disk: the load command (L1), set_model_type, cancel_classification, one
\* classify_images job and one indexing run with its own download_model and
\* load_model calls. The front end issues one command at a time, except that
\* cancel_classification may arrive at any time and the load command also
\* while the indexing run is inside its load_model call.
NextError ==
    \/ /\ Quiet \/ lpc[IndexLoader] # "idle"
       /\ \E g \in BOOLEAN : LoadEnter("L1", g)
    \/ LoadLockLoading("L1")
    \/ LoadClearError("L1")
    \/ DoLoadLabels("L1")
    \/ DoLoadModelPath("L1")
    \/ DoLoadBuild("L1")
    \/ DoLoadStore("L1")
    \/ LoadUnsetLoading("L1")
    \/ LoadSetError("L1")
    \/ LoadRecordGpu("L1")
    \/ LoadRecordType("L1")
    \/ LoadReturn("L1")
    \/ Quiet /\ \E t \in SelectTypes : set_model_type(t)
    \/ cancel_classification
    \/ Quiet /\ \E n \in 0..FolderMax("c2") : ClassifyBegin("c2", n)
    \/ \E i \in 1..total("c2") : ItemCheck("c2", i)
    \/ \E i \in 1..total("c2") : ItemLock("c2", i)
    \/ \E i \in 1..total("c2") : ItemInferDone("c2", i, "preds")
    \/ ClassifyCollect("c2")
    \/ ClassifyReturn("c2")
    \/ Quiet /\ IndexBegin
    \/ IndexDownloadCall
    \/ DownloadResolve
    \/ DownloadNext
    \/ DownloadSend(0)
    \/ DownloadChunk
    \/ DownloadEnd
    \/ IndexDownloadDone
    \/ IndexCheckLoad
    \/ IndexLoadCall
    \/ LoadLockLoading(IndexLoader)
    \/ LoadClearError(IndexLoader)
    \/ DoLoadLabels(IndexLoader)
    \/ DoLoadModelPath(IndexLoader)
    \/ DoLoadBuild(IndexLoader)
    \/ DoLoadStore(IndexLoader)
    \/ LoadUnsetLoading(IndexLoader)
    \/ LoadSetError(IndexLoader)
    \/ LoadRecordGpu(IndexLoader)
    \/ LoadRecordType(IndexLoader)
    \/ IndexLoadDone
    \/ IndexPrepare("ok", TRUE)
    \/ \E i \in 1..Len(photos) : IndexLock(i)
    \/ \E i \in 1..Len(photos) : IndexInferDone(i, "saved")
    \/ IndexEnd

SpecError == InitFresh /\ [][NextError]_vars

\* Direct callers of the database: ensure_vec_table and set_embedding with any
\* arguments and any failing statement.
NextDb ==
    \/ \E dim \in Dims, t \in ModelType, o \in EnsureOutcomes : DbEnsure(dim, Debug(t), o)
    \/ \E id \in PhotoIds, t \in ModelType, ok \in BOOLEAN :
          DbSetEmbedding(id, embedding_of(t, id), ok)

SpecDb == Init /\ [][NextDb]_vars

\* One load_model caller, one classify_images command and an indexing run
\* whose database statements succeed; an inference returns its output or fails.
NextInfer ==
    \/ \E g \in BOOLEAN : LoadEnter("L1", g)
    \/ LoadLockLoading("L1")
    \/ LoadClearError("L1")
    \/ DoLoadLabels("L1")
    \/ DoLoadModelPath("L1")
    \/ DoLoadBuild("L1")
    \/ DoLoadStore("L1")
    \/ LoadUnsetLoading("L1")
    \/ LoadSetError("L1")
    \/ LoadRecordGpu("L1")
    \/ LoadRecordType("L1")
    \/ LoadReturn("L1")
    \/ \E n \in 0..FolderMax("c1") : ClassifyBegin("c1", n)
    \/ \E i \in 1..total("c1") : ItemCheck("c1", i)
    \/ \E i \in 1..total("c1") : ItemPreprocessFail("c1", i)
    \/ \E i \in 1..total("c1") : ItemLock("c1", i)
    \/ \E i \in 1..total("c1") : \E o \in {"preds", "failed"} : ItemInferDone("c1", i, o)
    \/ ClassifyCollect("c1")
    \/ ClassifyReturn("c1")
    \/ IndexBegin
    \/ IndexCheckLoad
    \/ IndexPrepare("ok", TRUE)
    \/ \E i \in 1..Len(photos) : IndexPreprocessFail(i)
    \/ \E i \in 1..Len(photos) : IndexLock(i)
    \/ \E i \in 1..Len(photos) : \E o \in {"saved", "infer_failed"} : IndexInferDone(i, o)
    \/ IndexEnd

SpecInfer == InitReady /\ [][NextInfer]_vars

\* ------------------------------------------------------------------ claims

\* The loaders between setting and clearing the loading flag.
InFlight ==
    {p \in Loaders : lpc[p] \in {"clear_error", "read_config", "model_path", "build",
                                  "store", "unset_loading"}}

\* C2: when a load_model call returns an error and a session existed at its
\* entry, the manager is still ready and the sticky error is the returned
\* message; and unless another call loaded in between, the session, the
\* recorded loaded variant and the accelerator mode are those of the entry.
C2_FailedLoadKeepsSession ==
    [][\A p \in Loaders :
          (lpc[p] = "set_error" /\ lpc'[p] = "ret" /\ snap[p].model # NoSession)
          => /\ is_ready'
             /\ lret'[p] \in LoadErrors
             /\ get_error' = lret'[p]
             /\ ~disturbed[p] => /\ model' = snap[p].model
                                 /\ loaded_type' = snap[p].loaded
                                 /\ current_use_gpu' = snap[p].gpu]_vars

\* C2 witness: a failed load has returned while the session of the earlier
\* successful load is still the one under the guard.
C2_Witness ==
    \E p \in Loaders :
        /\ lpc[p] = "ret" /\ lret[p] \in LoadErrors
        /\ snap[p].model # NoSession /\ ~disturbed[p]
        /\ model = snap[p].model /\ error = lret[p]

\* C3: a call that reaches the loading-flag block while the flag is set returns
\* the busy error in that step and changes no field of the manager; the flag is
\* set exactly while one call is between setting and clearing it, so at most one
\* session construction is in progress.
C3_BusyRejected ==
    [][/\ \A p \in Loaders :
             (lpc[p] = "lock_loading" /\ loading /\ lpc'[p] # lpc[p])
             => /\ lpc'[p] = "ret" /\ lret'[p] = ErrBusy
                /\ UNCHANGED mgrVars
       /\ Cardinality(InFlight') <= 1
       /\ loading' <=> (InFlight' # {})]_vars

\* C3 witness: one call was rejected as busy while the other is constructing.
C3_Witness ==
    \E p, q \in Loaders :
        /\ lpc[p] = "ret" /\ lret[p] = ErrBusy
        /\ lpc[q] = "build"

\* C4: after a load that returned Ok for (variant, mode) and did not overlap
\* another load's writes, with no failed load and no change of selection since,
\* and no other call running, a load_model call with the same mode returns Ok at
\* once: no session is constructed and the
\* loading flag, the labels, the sticky error and the session are untouched.
C4_SecondLoadNoOp ==
    [][\A p \in Loaders, g \in BOOLEAN :
          (/\ lpc[p] = "idle" /\ lpc'[p] # "idle" /\ use_gpu'[p] = g
           /\ last = [type |-> current_type, gpu |-> g]
           /\ OthersInCall(p) = {})
          => /\ lpc'[p] = "ret" /\ lret'[p] = "NoOp"
             /\ loadAttempts' = loadAttempts
             /\ UNCHANGED <<loading, labels, error, model>>]_vars

\* C4 witness: the second call has returned Ok and the load-attempt counter is 1.
C4_Witness ==
    \E p \in Loaders :
        /\ lpc[p] = "ret" /\ lret[p] = "NoOp"
        /\ loadAttempts = 1
        /\ last = [type |-> current_type, gpu |-> use_gpu[p]]

\* C5 (as claimed): when load_model returns Ok after loading, the recorded
\* variant and mode are those of the session the call constructed, and that
\* session is the live one; and a call returns Ok without loading only if the
\* live session was built from the selected variant with the requested mode.
C5_RecordedIsConstructed ==
    [][\A p \in Loaders :
          /\ (lpc[p] = "rec_type" /\ lpc'[p] = "ret")
             => /\ loaded_type' = built[p].type
                /\ current_use_gpu' = built[p].gpu
          /\ (lpc[p] = "idle" /\ lpc'[p] = "ret")
             => /\ model.type = current_type
                /\ model.gpu = use_gpu'[p]]_vars

\* The workers inside run_inference_with_model: items of classify_images jobs
\* and photos of the indexing run.
InferWorkers ==
    UNION {{<<j, i>> : i \in {k \in 1..total(j) : items[j][k].pc = "infer"}} : j \in Jobs}
    \cup {<<"ix", i>> : i \in {k \in 1..Len(photos) : photos[k].pc = "infer"}}

\* C1: at most one worker, classify item or indexing photo, is inside
\* run_inference_with_model at any time, that worker holds the session guard,
\* and while a worker is inside, no step (a load_model store included) changes
\* the session.
C1_OneInference ==
    [][/\ Cardinality(InferWorkers') <= 1
       /\ \A w \in InferWorkers' : modelGuard' = w
       /\ InferWorkers # {} => model' = model]_vars

\* C1 witness: a classify item is inside run_inference_with_model while an
\* indexing photo waits for the guard and load_model waits to store its
\* newly built session.
C1_Witness ==
    /\ \E i \in 1..total("c1") : items["c1"][i].pc = "infer"
    /\ \E k \in 1..Len(photos) : photos[k].pc = "pre"
    /\ lpc["L1"] = "store"
    /\ built["L1"] # model

\* The items of job j that passed their cancellation check and were completed.
Completed(j) == {i \in 1..total(j) : items[j][i].pc = "done"}

\* The items of job j that returned the sentinel.
Skipped(j) == {i \in 1..total(j) : items[j][i].pc = "skipped"}

\* A job that got past the readiness and labels tests has returned.
Returned(j) == jpc[j] = "ret" /\ jret[j].status \notin {ErrNotLoaded, ErrNoLabels}

\* C6: a job during which no cancellation was requested returns Ok with one
\* result per listed image, in input order, whatever items failed in
\* preprocessing or inference; each item without usable output has an empty
\* prediction list.
C6_FailuresKeepBatch ==
    \A j \in Jobs :
        (Returned(j) /\ ~cancelReq[j])
        => /\ jret[j].status = "Ok"
           /\ Len(jret[j].results) = total(j)
           /\ \A i \in 1..total(j) :
                 /\ jret[j].results[i].file_name = <<i>>
                 /\ items[j][i].out # "preds" => jret[j].results[i].predictions = <<>>

\* C6 witness: a job over MaxItems images returned Ok although one item failed
\* and another one got predictions.
C6_Witness ==
    /\ Returned("c1") /\ ~cancelReq["c1"] /\ total("c1") = MaxItems
    /\ jret["c1"].status = "Ok"
    /\ \E i, k \in 1..total("c1") :
          items["c1"][i].out = "failed" /\ items["c1"][k].out = "preds"

\* C7 (as claimed): a job over a non-empty folder during which
\* cancel_classification was called returns the cancellation error when no item
\* completed, and Ok with exactly the completed items otherwise.
C7_CancelOutcome ==
    \A j \in Jobs :
        (Returned(j) /\ cancelReq[j] /\ total(j) > 0)
        => IF Completed(j) = {}
              THEN jret[j].status = ErrCancelled
              ELSE /\ jret[j].status = "Ok"
                   /\ Len(jret[j].results) = Cardinality(Completed(j))

\* C8 (as claimed): a job during which cancel_classification was called returns
\* strictly fewer results than it has items.
C8_CancelledFewerResults ==
    \A j \in Jobs :
        (Returned(j) /\ cancelReq[j] /\ total(j) > 0)
        => Len(jret[j].results) < total(j)

\* C8 (amended): an item is skipped exactly when its own cancellation check
\* finds the flag set, and a job during which cancel_classification was called
\* returns total minus the number of skipped items results: fewer than total if
\* and only if some check ran while the flag was set.
C8_ResultsAreTotalMinusSkipped ==
    [][\A j \in Jobs :
          /\ \A i \in 1..total(j) :
                (jpc'[j] = "running" /\ items[j][i].pc = "pending"
                 /\ items'[j][i].pc # "pending")
                => (items'[j][i].pc = "skipped" <=> is_cancelled)
          /\ (jpc[j] = "running" /\ jpc'[j] = "ret" /\ cancelReq[j])
             => Len(jret'[j].results) = total(j) - Cardinality(Skipped(j))]_vars

\* C8 witness: cancel_classification came after one item was started and before
\* the check of another; the job returned all but one result.
C8_Witness ==
    /\ Returned("c1") /\ cancelReq["c1"] /\ total("c1") = MaxItems
    /\ jret["c1"].status = "Ok"
    /\ Len(jret["c1"].results) = total("c1") - 1

\* C9 (as claimed): from a cancel_classification call during a running job
\* until that job returns, is_cancelled() is true.
C9_CancelStaysSet ==
    \A j \in Jobs : (jpc[j] = "running" /\ cancelReq[j]) => is_cancelled

\* C10: an item is in the returned results if and only if it passed its
\* cancellation check; a started item stays started whatever the flag does and is
\* reported under its own name even with no predictions, and no result is the
\* sentinel of a skipped item.
C10_ReportedIffStarted ==
    [][\A j \in Jobs :
          /\ \A i \in 1..total(j) :
                (items[j][i].pc \in {"pre", "infer", "done"} /\ jpc'[j] # "idle")
                => items'[j][i].pc \in {"pre", "infer", "done"}
          /\ (jpc[j] = "running" /\ jpc'[j] = "ret" /\ jret'[j].status = "Ok")
             => /\ {r \in 1..Len(jret'[j].results) : jret'[j].results[r].file_name = <<>>} = {}
                /\ {jret'[j].results[r].file_name : r \in 1..Len(jret'[j].results)}
                      = {<<i>> : i \in Completed(j)}
                /\ Len(jret'[j].results) = Cardinality(Completed(j))
          /\ (jpc[j] = "running" /\ jpc'[j] = "ret" /\ jret'[j].status # "Ok")
             => Completed(j) = {}]_vars

\* C10 witness: a returned job with a skipped item, not reported, and a started
\* item without predictions, reported with an empty prediction list.
C10_Witness ==
    /\ Returned("c1") /\ jret["c1"].status = "Ok"
    /\ Skipped("c1") # {}
    /\ \E r \in 1..Len(jret["c1"].results) : jret["c1"].results[r].predictions = <<>>

\* The stored signature is (tag, dim).
Signature(tag, dim) == vec_meta = [model_type |-> <<tag>>, embedding_dim |-> to_string(dim)]

\* C14: ensure_vec_table(dim, tag) called while the stored signature is
\* (tag, dim) returns Ok and changes neither the vector table, nor
\* has_embedding of any id, nor the stored signature.
C14_EnsureSameIsNoOp ==
    [][\A t \in ModelType, d \in Dims :
          (/\ dbcall'.op = "ensure" /\ dbcall'.tag = Debug(t) /\ dbcall'.dim = d
           /\ Signature(Debug(t), d))
          => /\ dbcall'.res = "Ok"
             /\ vec_photos' = vec_photos
             /\ vec_meta' = vec_meta
             /\ \A id \in PhotoIds : has_embedding(id)' = has_embedding(id)]_vars

\* C14 witness: ensure_vec_table was called with the stored signature and the
\* vectors stored before the call are still there.
C14_Witness ==
    /\ dbcall.op = "ensure" /\ dbcall.res = "Ok"
    /\ Signature(dbcall.tag, dbcall.dim)
    /\ dbcall.had = PhotoIds
    /\ \A id \in PhotoIds : has_embedding(id)

\* C15: ensure_vec_table(dim, tag) that returns Ok after being called while
\* the stored signature is not (tag, dim) leaves no embedding: has_embedding is
\* false for every id, get_photos_to_index returns every photo, and the stored
\* signature is (tag, dim).
C15_EnsureOtherEmpties ==
    [][\A t \in ModelType, d \in Dims :
          (/\ dbcall'.op = "ensure" /\ dbcall'.tag = Debug(t) /\ dbcall'.dim = d
           /\ dbcall'.res = "Ok"
           /\ ~Signature(Debug(t), d))
          => /\ \A id \in PhotoIds : ~has_embedding(id)'
             /\ get_photos_to_index(RunFolder)' = photos_from(
                    [exists |-> FALSE, dim |-> 0, rows |-> [id \in PhotoIds |-> NoVec]], RunFolder, 1)
             /\ Len(get_photos_to_index(RunFolder)') = MaxPhotos
             /\ Signature(Debug(t), d)']_vars

\* C15 witness: every photo had an embedding, ensure_vec_table was called with
\* another signature and returned Ok, and no photo has an embedding.
C15_Witness ==
    /\ dbcall.op = "ensure" /\ dbcall.res = "Ok"
    /\ dbcall.had = PhotoIds
    /\ \A id \in PhotoIds : ~has_embedding(id)
    /\ Signature(dbcall.tag, dbcall.dim)

\* C11 (as claimed): every indexing run has emitted the event with done=true
\* exactly once, and as its last event, when it ends.
C11_DoneExactlyOnce ==
    [][(xpc # "idle" /\ xpc' = "idle") => (done_events' = 1 /\ last_event' = "done")]_vars

\* C12 (as claimed): every vector in vec_photos was produced by a session of the
\* variant named in the stored signature and has the stored dimension.
C12_VectorsMatchSignature ==
    \A id \in PhotoIds :
        has_embedding(id) => Signature(Debug(vec_photos.rows[id].type),
                                       vec_photos.rows[id].dim)

\* C13: while the for_each of an indexing run is at work, a photo of its
\* snapshot has an embedding exactly if its preprocessing, its inference and
\* its set_embedding all succeeded; when the run emits done, the same holds
\* and every other photo of the snapshot is returned by get_photos_to_index.
C13_RowIffAllSucceeded ==
    [][/\ xpc' = "running"
          => \A i \in 1..Len(photos') :
                has_row(vec_photos', photos'[i].id) <=> photos'[i].out = "saved"
       /\ (xpc = "running" /\ xpc' = "idle" /\ done_events' = done_events + 1)
          => \A i \in 1..Len(photos) :
                /\ has_row(vec_photos', photos[i].id) <=> photos[i].out = "saved"
                /\ photos[i].out # "saved"
                   => \E k \in 1..Len(get_photos_to_index(RunFolder)') :
                         get_photos_to_index(RunFolder)'[k] = photos[i].id]_vars

\* C13 witness: the run is about to emit done; a photo whose set_embedding
\* failed has no row and is in the next work list.
C13_Witness ==
    /\ xpc = "running"
    /\ \A i \in 1..Len(photos) : photos[i].pc = "done"
    /\ \E i \in 1..Len(photos) :
          /\ photos[i].out = "save_failed"
          /\ ~has_embedding(photos[i].id)
          /\ \E k \in 1..Len(get_photos_to_index(RunFolder)) : get_photos_to_index(RunFolder)[k] = photos[i].id

\* C16: a download_model call made while both files of the selected variant
\* (an override applied) exist returns Ok at once: nothing is requested, no
\* file is written, the cancel flag is not reset; apart from the selection the
\* manager and the model directory are as before the call.
C16_DownloadedIsNoOp ==
    [][(dpc = "idle" /\ dpc' # "idle" /\ is_downloaded')
       => /\ dpc' = "ret"
          /\ dret' = "Ok"
          /\ UNCHANGED <<disk, cancel_flag, dest, current_type_enum>>
          /\ UNCHANGED <<labels, model, loading, error, current_use_gpu, loaded_type>>]_vars

\* C16 witness: download_model has returned Ok without fetching anything while
\* the cancel flag, set before the call, is still set.
C16_Witness ==
    /\ dpc = "ret"
    /\ dret = "Ok"
    /\ current_type_enum = None
    /\ is_downloaded
    /\ is_cancelled

\* C17 as stated: a download_model call during whose streaming cancel was
\* called returns an error, its destination file is gone and is_downloaded()
\* is false.
C17_CancelWhileStreamingFails ==
    [][(dpc # "ret" /\ dpc' = "ret" /\ dlCancelReq)
       => /\ dret' # "Ok"
          /\ dest # None => disk'[dest] = "absent"
          /\ ~is_downloaded']_vars

\* C18: when a load_model call or a download_model call returns an error,
\* get_error() reports a message.
C18_FailuresSetError ==
    [][(\/ dpc # "ret" /\ dpc' = "ret" /\ dret' # "Ok"
        \/ \E p \in Loaders :
              lpc[p] # "ret" /\ lpc'[p] = "ret" /\ lret'[p] \notin {"Ok", "NoOp"})
       => get_error' # None]_vars

\* C19: the sticky error goes from set to cleared only at the step where a
\* load_model call, holding the loading flag alone, begins its load attempt;
\* get_error() changes at no step other than that one and the one where a
\* failed load records its message; a no-op load and a busy-rejected load
\* return with get_error() unchanged.
C19_ErrorClearedOnlyAtLoadStart ==
    [][/\ (error # None /\ error' = None)
          => \E p \in Loaders :
                /\ lpc[p] = "clear_error"
                /\ lpc'[p] = "read_config"
                /\ loading
                /\ InFlight = {p}
       /\ get_error' # get_error
          => \E p \in Loaders :
                lpc[p] \in {"clear_error", "set_error"} /\ lpc'[p] # lpc[p]
       /\ \A p \in Loaders :
             (lpc[p] \in {"idle", "lock_loading"} /\ lpc'[p] = "ret")
             => get_error' = get_error]_vars

\* C19 witness: a load_model call was rejected as busy and the error set by
\* an earlier failed load is still reported.
C19_Witness ==
    /\ get_error # None
    /\ \E p \in Loaders : lpc[p] = "ret" /\ lret[p] = ErrBusy

\* C20: a step that changes the selected variant changes neither the session,
\* the label list, the recorded loaded variant, the accelerator mode, the
\* loading flag, the sticky error nor the cancel flag, and is_ready() keeps
\* its value.
C20_SelectOnlySelects ==
    [][current_type' # current_type
       => /\ UNCHANGED <<model, labels, loaded_type, current_use_gpu, loading,
                         error, cancel_flag>>
          /\ is_ready' = is_ready]_vars

\* C20 witness: a session loaded for one variant is ready while the other
\* variant is selected and no load is in flight.
C20_Witness ==
    /\ is_ready
    /\ loaded_type # None
    /\ loaded_type # current_type
    /\ \A p \in Loaders : lpc[p] = "idle"

\* C21: a classify_images job and an indexing run that start their work while
\* a session is live use the crop size and the label list of the variant that
\* session was loaded with, and the run ensures the vector table under that
\* variant's tag.
C21_LoadedVariantUsed ==
    [][/\ \A j \in Jobs :
             (jpc[j] = "idle" /\ jpc'[j] = "running")
             => \A i \in 1..Len(items'[j]) :
                   /\ items'[j][i].crop = crop_size(model.type)
                   /\ items'[j][i].labels = model.type
       /\ (xpc = "prepare" /\ xpc' = "running")
          => /\ \A i \in 1..Len(photos') :
                   /\ photos'[i].crop = crop_size(model.type)
                   /\ photos'[i].labels = model.type
             /\ vec_meta'.model_type = <<Debug(model.type)>>]_vars

\* C22: the download-progress percentages emitted by one download_model call
\* are strictly increasing, so that no value is emitted twice.
C22_ProgressStrictlyIncreasing ==
    \A i \in 1..Len(emitted) - 1 : emitted[i] < emitted[i + 1]

\* C23: when the registry lookup of a download_model call for MobileNetV3Large
\* fails, the call returns the error at that step, with the model directory
\* as it was; such a call has created no file and has emitted no progress,
\* and the lookup is made only when a file of the variant is missing.
C23_RegistryFailureIsHard ==
    [][/\ (dpc = "resolve" /\ dpc' = "ret")
          => /\ current_type_enum = "MobileNetV3Large"
             /\ dret' \in RegistryErrors
             /\ disk' = disk
             /\ dest' = None
       /\ dpc' = "resolve"
          => /\ emitted' = <<>>
             /\ dest' = None
             /\ \E f \in {model_file(current_type_enum'), config_file(current_type_enum')} :
                   disk'[f] = "absent"
       /\ (dpc' = "ret" /\ dret' \in RegistryErrors)
          => emitted' = <<>>]_vars

\* C23 witness: the lookup for MobileNetV3Large failed while the weight file
\* was missing and the label file was on disk; download_model has returned
\* the error and the weight file is still missing.
C23_Witness ==
    /\ dpc = "ret"
    /\ dret \in RegistryErrors
    /\ disk[config_file("MobileNetV3Large")] # "absent"
    /\ disk[model_file("MobileNetV3Large")] = "absent"

\* C24: an indexing run that finds the model downloaded but not ready goes on
\* to embed the photos once its load_model call is over; it gives up at that
\* step only when the load attempt itself failed, not because another
\* load_model call was in flight.
C24_RunLoadsTransparently ==
    [][(xpc = "load" /\ xpc' = "idle")
       => lret[IndexLoader] \in {ErrReadConfig, ErrParseConfig, ErrLoadOnnx}]_vars

\* C29: get_model_status can complete in every reachable state; it does not
\* wait for a worker that holds the session guard.
C29_StatusNeverWaits == ENABLED get_model_status

\* C30: at most one folder is watched; outside a watch_folder call the
\* watched folder is the one recorded in the state; the old watch is gone
\* before the new one is installed, whether or not the installation then
\* succeeds; and a call for the path already watched returns with the state
\* and the watch unchanged.
C30_OneWatch ==
    [][/\ Cardinality(watches') <= 1
       /\ wlock' = NoCaller => watches' = (IF wstate' = NoWatch THEN {} ELSE {wstate'})
       /\ \A c \in Watchers :
             /\ wpc'[c] = "install" => (watches' = {} /\ wstate' = NoWatch)
             /\ (wpc[c] = "idle" /\ wpc'[c] = "ret")
                => UNCHANGED <<wstate, watches, queued, wlock>>]_vars

\* C30 witness: a caller asked for another folder than the one watched, the
\* installation failed, and no folder is watched any more.
C30_Witness ==
    /\ \E c \in Watchers : wpc[c] = "ret"
    /\ wlock = NoCaller
    /\ wstate = NoWatch
    /\ watches = {}
    /\ folder_changed > 0

\* C25: find_similar_by_embedding never returns the reference photo, returns
\* its rows by non-decreasing distance, and returns only photos whose path
\* starts with the folder and whose distance is at most max_distance.
C25_SimilarRowsFiltered ==
    (dbcall.op = "find_similar" /\ dbcall.res = "Ok")
       => \A i \in 1..Len(dbcall.rows) :
             /\ dbcall.rows[i].photo_id # dbcall.id
             /\ starts_with(dbcall.rows[i].path, dbcall.folder)
             /\ dbcall.rows[i].distance <= dbcall.max_distance
             /\ i < Len(dbcall.rows) => dbcall.rows[i].distance <= dbcall.rows[i + 1].distance

\* C26: the result of find_similar_by_embedding(ref, folder, max_distance, k)
\* is taken from the k vectors of the whole index nearest to the reference and
\* filtered afterwards: it has at most k rows; each row is among the k nearest
\* of the whole index (fewer than k other vectors are strictly closer), is not
\* the reference and is within max_distance; and an indexed photo under the
\* folder within max_distance, other than the reference, is left out only when
\* k or more other vectors of the index are at least as close.
C26_KnnThenFilter ==
    (dbcall.op = "find_similar" /\ dbcall.res = "Ok")
       => LET ref_embedding == vec_photos.rows[dbcall.id]
              d(id) == distance(ref_embedding, vec_photos.rows[id])
              returned == {dbcall.rows[i].photo_id : i \in 1..Len(dbcall.rows)}
          IN /\ Len(dbcall.rows) <= dbcall.limit
             /\ Cardinality(returned) = Len(dbcall.rows)
             /\ \A id \in returned :
                   /\ id \in indexed \ {dbcall.id}
                   /\ d(id) <= dbcall.max_distance
                   /\ Cardinality({o \in indexed \ {id} : d(o) < d(id)}) < dbcall.limit
             /\ \A id \in indexed \ (returned \cup {dbcall.id}) :
                   (starts_with(photo_path[id], dbcall.folder) /\ d(id) <= dbcall.max_distance)
                      => Cardinality({o \in indexed \ {id} : d(o) <= d(id)}) >= dbcall.limit

\* A search came back with fewer than k rows although an indexed photo under
\* the folder, within max_distance and not the reference, was left out.
C26_Witness ==
    /\ dbcall.op = "find_similar"
    /\ dbcall.res = "Ok"
    /\ Len(dbcall.rows) < dbcall.limit
    /\ \E id \in indexed \ {dbcall.id} :
          /\ \A i \in 1..Len(dbcall.rows) : dbcall.rows[i].photo_id # id
          /\ starts_with(photo_path[id], dbcall.folder)
          /\ distance(vec_photos.rows[dbcall.id], vec_photos.rows[id]) <= dbcall.max_distance

\* C27: get_photos_to_index(folder) returns exactly the photos whose path
\* starts with the folder and that have no stored vector, and every photo
\* under the folder when the vector table does not exist.
C27_ToIndexIsFolderMinusIndexed ==
    dbcall.op = "to_index"
       => {dbcall.rows[i] : i \in 1..Len(dbcall.rows)}
             = {id \in PhotoIds : /\ starts_with(photo_path[id], dbcall.folder)
                                  /\ dbcall.existed => ~has_embedding(id)}

C31_BurstGivesOneEvent ==
    /\ [][/\ (dbpc = "sleep" /\ dbpc' = "recv" /\ wstate' = wstate /\ wpc' = wpc)
               => /\ queued' = 0
                  /\ unnotified' = 0
                  /\ folder_changed < MaxEvents => folder_changed' = folder_changed + 1
          /\ folder_changed' # folder_changed
               => /\ folder_changed' = folder_changed + 1
                  /\ (dbpc = "sleep" /\ dbpc' = "recv") \/ orphans' = orphans - 1
          /\ (dbpc = "recv" /\ dbpc' = "sleep") => folder_changed' = folder_changed]_vars
    /\ (unnotified > 0) ~> (unnotified = 0)

\* Events were sent to the live watcher, and its debounce task has emitted the
\* first folder-changed event with nothing left in the channel.
C31_Witness ==
    /\ folder_changed = 1
    /\ unnotified = 0
    /\ queued = 0
    /\ dbpc = "recv"
    /\ orphans = 0
    /\ wstate # NoWatch

\* C34: whenever no load_model call is in flight and a session is live, the
\* label list get_labels returns is the one of the variant the session was
\* built from.
C34_LabelsOfLiveSession ==
    ((\A p \in Loaders : ~InCall(p)) /\ model # NoSession) => labels = model.type

\* The load_model call of p has set the loading flag and not cleared it yet.
HoldsLoading(p) ==
    lpc[p] \in {"clear_error", "read_config", "model_path", "build", "store", "unset_loading"}

\* C37: the loading flag is set exactly while one load_model call is between
\* setting and clearing it, a call is rejected as busy only while another call
\* is there, and the flag is eventually false after every load.
C37_LoadingFlagCleared ==
    /\ [](loading <=> \E p \in Loaders : HoldsLoading(p))
    /\ [][\A p \in Loaders :
             (lpc[p] = "lock_loading" /\ lret'[p] = ErrBusy /\ lpc'[p] = "ret")
                => \E q \in Loaders \ {p} : HoldsLoading(q)]_vars
    /\ loading ~> ~loading

\* A load that failed has cleared the loading flag, and the next call is past
\* the busy test.
C37_Witness ==
    /\ ~loading
    /\ error \in LoadErrors
    /\ \E p \in Loaders : lpc[p] = "lock_loading"
    /\ \E p \in Loaders : lret[p] \in LoadErrors

\* C38: once is_ready() is true it is true in every later state, and while a
\* classify_images job is past its readiness check, the session is there for
\* every worker that takes the guard.
C38_ReadyStaysReady ==
    /\ [][is_ready => is_ready']_vars
    /\ [](\A j \in Jobs : jpc[j] = "running" => is_ready)
    /\ [][\A j \in Jobs : \A i \in 1..Len(items[j]) :
             (ItemAt(j, i, "pre") /\ modelGuard' = <<j, i>>) => items'[j][i].pc = "infer"]_vars

\* A load of another mode failed while a worker of a classify_images job was
\* about to take the guard, and the session of before is still there.
C38_Witness ==
    /\ error \in LoadErrors
    /\ is_ready
    /\ \E i \in 1..Len(items["c1"]) : ItemAt("c1", i, "infer")


\* C40: after an ensure_vec_table call returned Ok the vector table exists,
\* its dimension is the stored embedding_dim and the stored signature is the
\* one the call was made with, whatever the earlier calls did (in particular
\* an earlier call that dropped the table and then failed).
C40_EnsureOkMeansTable ==
    (dbcall.op = "ensure" /\ dbcall.res = "Ok")
        => /\ vec_photos.exists
           /\ vec_meta.embedding_dim = to_string(vec_photos.dim)
           /\ vec_meta.embedding_dim = to_string(dbcall.dim)
           /\ vec_meta.model_type = <<dbcall.tag>>


\* C35: is_downloaded() is true, a status query reports downloaded, and
\* download_model returns Ok, only when both files of the selected variant
\* have been completely written, also while a download is streaming.
C35_DownloadedMeansComplete ==
    /\ [](is_downloaded => /\ disk[model_file(current_type)] = "complete"
                           /\ disk[config_file(current_type)] = "complete")
    /\ []((dpc = "ret" /\ dret = "Ok")
              => /\ disk[model_file(current_type)] = "complete"
                 /\ disk[config_file(current_type)] = "complete")
    /\ [][(status' # status /\ status'.downloaded)
              => /\ disk[model_file(current_type)] = "complete"
                 /\ disk[config_file(current_type)] = "complete"]_vars


\* C36: when a download_model call has failed for a reason other than
\* cancellation, no partially written destination file is on disk, so a
\* later is_downloaded() cannot be true on an incomplete file.
C36_FailureLeavesNoPartialFile ==
    (dpc = "ret" /\ dret \in RegistryErrors \cup {ErrDownload})
        => \A f \in DOMAIN disk : disk[f] # "partial"


\* The item of file f completes in this step: its ClassifyResult is returned.
Completes(f) == oitems[f].pc # "done" /\ oitems'[f].pc = "done"

\* The final path of the file of a completed item, from what happened to the
\* file: the destination when it was renamed, the original path otherwise.
FinalPathAfter(f) ==
    IF oitems'[f].org = "moved" THEN dest_path(f, oitems'[f].predictions[1]) ELSE img_path(f)

C39_TagsAreThisJobsPredictions ==
    [][\A f \in Files :
          (Completes(f) /\ oitems'[f].db \in {"stored", "no_tags"})
             => tags'[oitems'[f].id] = oitems'[f].predictions]_vars


\* C33: for a logit vector with non-zero norm the returned embedding is the
\* logit vector divided by its L2 norm, a vector of norm 1 (here: the non-zero
\* component becomes 1 with its sign, the others stay zero); for the zero
\* vector the embedding is the logit vector itself.
C33_EmbeddingIsUnit ==
    logits # <<>>
       => IF \E i \in 1..Len(logits) : logits[i].kind # "zero"
             THEN \A i \in 1..Len(logits) :
                     embedding_ret[i] = IF logits[i].kind = "zero" THEN F32Zero
                                        ELSE pow2(logits[i].neg, 0)
             ELSE embedding_ret = logits

====
